---------------------------- MODULE Spec2Model ----------------------------
(***************************************************************************)
(* PointCloudGenerator: camera transform shared by WebGPURenderer and      *)
(* Exporter, the renderer's life cycle and input handlers, and the         *)
(* procedural SurfaceGenerator.                                            *)
(*                                                                         *)
(* JavaScript numbers are modelled as extended rationals <<n, d>> in       *)
(* lowest terms with d >= 0: d > 0 is the finite value n/d, <<1,0>> is     *)
(* +Infinity, <<-1,0>> is -Infinity and <<0,0>> is NaN.  Rounding to       *)
(* binary floating point is not modelled.                                  *)
(***************************************************************************)
EXTENDS Integers, Sequences, FiniteSets, TLC

-----------------------------------------------------------------------------
(* JavaScript Number arithmetic *)

Abs(x) == IF x < 0 THEN -x ELSE x

Sign(x) == IF x < 0 THEN -1 ELSE IF x > 0 THEN 1 ELSE 0

RECURSIVE Gcd(_, _)
Gcd(a, b) == IF b = 0 THEN a ELSE Gcd(b, a % b)

Norm(n, d) ==
    IF d = 0 THEN <<Sign(n), 0>>
    ELSE LET g == Gcd(Abs(n), Abs(d))
         IN  <<Sign(d) * (n \div g), Abs(d) \div g>>

R(n, d) == Norm(n, d)

NaN == <<0, 0>>
Infinity == <<1, 0>>
Zero == <<0, 1>>
One == <<1, 1>>

isNaN(a) == a = NaN

isFinite(a) == a[2] > 0

RNeg(a) == <<-a[1], a[2]>>

RAdd(a, b) ==
    IF isNaN(a) \/ isNaN(b) THEN NaN
    ELSE IF a[2] = 0 THEN (IF b[2] = 0 /\ b[1] # a[1] THEN NaN ELSE a)
    ELSE IF b[2] = 0 THEN b
    ELSE LET g == Gcd(a[2], b[2])
         IN  Norm(a[1] * (b[2] \div g) + b[1] * (a[2] \div g), (a[2] \div g) * b[2])

RSub(a, b) == RAdd(a, RNeg(b))

RMul(a, b) ==
    IF a[2] = 0 \/ b[2] = 0 THEN Norm(Sign(a[1]) * Sign(b[1]), 0)
    ELSE LET g1 == Gcd(Abs(a[1]), b[2])
             g2 == Gcd(Abs(b[1]), a[2])
         IN  Norm((a[1] \div g1) * (b[1] \div g2), (a[2] \div g2) * (b[2] \div g1))

RInv(a) == Norm(a[2], a[1])

RDiv(a, b) ==
    IF a[2] = 0 /\ b[2] = 0 THEN NaN
    ELSE IF a[2] = 0 THEN Norm(a[1] * (IF b[1] < 0 THEN -1 ELSE 1), 0)
    ELSE RMul(a, RInv(b))

\* n1/d1 < n2/d2 for positive d1 and d2, by integer parts and then by the
\* reciprocals of the fractional parts (no product of the operands is
\* formed)
RECURSIVE FracLess(_, _, _, _)
FracLess(n1, d1, n2, d2) ==
    IF n1 \div d1 # n2 \div d2 THEN n1 \div d1 < n2 \div d2
    ELSE IF n2 % d2 = 0 THEN FALSE
    ELSE IF n1 % d1 = 0 THEN TRUE
    ELSE FracLess(d2, n2 % d2, d1, n1 % d1)

RLt(a, b) ==
    /\ ~isNaN(a) /\ ~isNaN(b) /\ a # b
    /\ IF a[2] = 0 \/ b[2] = 0 THEN RSub(a, b)[1] < 0
       ELSE FracLess(a[1], a[2], b[1], b[2])

RLe(a, b) == ~isNaN(a) /\ ~isNaN(b) /\ (a = b \/ RLt(a, b))

\* Math.max / Math.min: NaN if either argument is NaN
MathMax(a, b) == IF isNaN(a) \/ isNaN(b) THEN NaN ELSE IF RLt(a, b) THEN b ELSE a

MathMin(a, b) == IF isNaN(a) \/ isNaN(b) THEN NaN ELSE IF RLt(b, a) THEN b ELSE a

\* Math.floor and Math.round (round half up) of a finite value, as an integer
MathFloor(a) == a[1] \div a[2]

MathRound(a) == MathFloor(RAdd(a, R(1, 2)))

\* Math.sin / Math.cos: NaN for a non-finite argument, otherwise the
\* second-order Taylor polynomials x and 1 - x^2/2 of the argument in radians
MathSin(x) == IF ~isFinite(x) THEN NaN ELSE x

MathCos(x) == IF ~isFinite(x) THEN NaN ELSE RSub(One, RDiv(RMul(x, x), R(2, 1)))

\* Math.tan(fov / 2) for fov = 60 degrees: tan(pi/6) ~ 0.577, taken as 4/7
TanHalfFov == R(4, 7)

-----------------------------------------------------------------------------
(* math.js: cubicBezier, sampleBezierSpline, interpolateColor.  A curve is *)
(* a sequence of points [x, y, cp1 |-> [dx, dy], cp2 |-> [dx, dy]]; JS     *)
(* index k is element k+1.  A color is the sequence of the characters of   *)
(* its "#rrggbb" string.                                                   *)

\* the straight line from p0 to p3
cubicBezier_chord(t, p0, p1, p2, p3) ==
    RAdd(RMul(RSub(One, t), p0), RMul(t, p3))

cubicBezier(t, p0, p1, p2, p3) ==
    LET mt == RSub(One, t)
    IN  RAdd(RAdd(RAdd(RMul(RMul(RMul(mt, mt), mt), p0),
                       RMul(RMul(RMul(RMul(R(3, 1), mt), mt), t), p1)),
                  RMul(RMul(RMul(RMul(R(3, 1), mt), t), t), p2)),
             RMul(RMul(RMul(t, t), t), p3))

\* p[axis]
Coord(p, axis) == IF axis = "x" THEN p.x ELSE p.y

\* axis === 'x' ? cp.dx : cp.dy
Handle(cp, axis) == IF axis = "x" THEN cp.dx ELSE cp.dy

\* the indices at which sampleBezierSpline reads points (counted from 0)
sampleBezierSpline_reads(t, pts) ==
    IF Len(pts) < 2 THEN {0}
    ELSE LET n   == Len(pts) - 1
             idx == MathFloor(RMul(t, R(n, 1)))
         IN  IF idx >= n THEN {n} ELSE {idx, idx + 1}

\* at the end of the curve the first anchor is returned
sampleBezierSpline_wraps(t, pts, axis) ==
    IF Len(pts) < 2 THEN (IF Len(pts) = 1 THEN Coord(pts[1], axis) ELSE Zero)
    ELSE LET n      == Len(pts) - 1
             rawT   == RMul(t, R(n, 1))
             idx    == MathFloor(rawT)
             weight == RSub(rawT, R(idx, 1))
         IN  IF idx >= n THEN Coord(pts[1], axis)
             ELSE LET pA == pts[idx + 1]
                      pB == pts[idx + 2]
                  IN  cubicBezier(weight,
                                  Coord(pA, axis),
                                  RAdd(Coord(pA, axis), Handle(pA.cp2, axis)),
                                  RAdd(Coord(pB, axis), Handle(pB.cp1, axis)),
                                  Coord(pB, axis))

sampleBezierSpline(t, pts, axis) ==
    IF Len(pts) < 2 THEN (IF Len(pts) = 1 THEN Coord(pts[1], axis) ELSE Zero)
    ELSE LET n      == Len(pts) - 1
             rawT   == RMul(t, R(n, 1))
             idx    == MathFloor(rawT)
             weight == RSub(rawT, R(idx, 1))
         IN  IF idx >= n THEN Coord(pts[n + 1], axis)
             ELSE LET pA == pts[idx + 1]
                      pB == pts[idx + 2]
                  IN  cubicBezier(weight,
                                  Coord(pA, axis),
                                  RAdd(Coord(pA, axis), Handle(pA.cp2, axis)),
                                  RAdd(Coord(pB, axis), Handle(pB.cp1, axis)),
                                  Coord(pB, axis))

HexDigits == <<"0", "1", "2", "3", "4", "5", "6", "7",
               "8", "9", "a", "b", "c", "d", "e", "f">>

\* parseInt(color.substring(from, from + 2), 16), from counted as in JS
ParseHexPair(color, from) ==
    LET val(ch) == (CHOOSE k \in 1..16 : HexDigits[k] = ch) - 1
    IN  16 * val(color[from + 1]) + val(color[from + 2])

\* a | b on two's complement integers
RECURSIVE BitOr(_, _)
BitOr(a, b) ==
    IF a = 0 THEN b
    ELSE IF b = 0 THEN a
    ELSE IF a = -1 \/ b = -1 THEN -1
    ELSE 2 * BitOr(a \div 2, b \div 2) + (IF a % 2 = 1 \/ b % 2 = 1 THEN 1 ELSE 0)

\* n.toString(16) for an integer n
RECURSIVE HexString(_)
HexString(n) ==
    IF n < 0 THEN <<"-">> \o HexString(-n)
    ELSE IF n < 16 THEN <<HexDigits[n + 1]>>
    ELSE HexString(n \div 16) \o <<HexDigits[(n % 16) + 1]>>

\* s.padStart(len, '0')
RECURSIVE PadStart(_, _)
PadStart(s, len) == IF Len(s) >= len THEN s ELSE PadStart(<<"0">> \o s, len)

\* Math.round(c1 + (c2 - c1) * t), and NaN as the operand of << and | is 0
Channel(c1, c2, t) ==
    LET v == RAdd(R(c1, 1), RMul(R(c2 - c1, 1), t))
    IN  IF isFinite(v) THEN MathRound(v) ELSE 0

\* the hex string left as toString(16) gives it
interpolateColor_unpadded(color1, color2, t) ==
    LET r == Channel(ParseHexPair(color1, 1), ParseHexPair(color2, 1), t)
        g == Channel(ParseHexPair(color1, 3), ParseHexPair(color2, 3), t)
        b == Channel(ParseHexPair(color1, 5), ParseHexPair(color2, 5), t)
    IN  <<"#">> \o HexString(BitOr(BitOr(r * 65536, g * 256), b))

interpolateColor(color1, color2, t) ==
    LET r == Channel(ParseHexPair(color1, 1), ParseHexPair(color2, 1), t)
        g == Channel(ParseHexPair(color1, 3), ParseHexPair(color2, 3), t)
        b == Channel(ParseHexPair(color1, 5), ParseHexPair(color2, 5), t)
    IN  <<"#">> \o PadStart(HexString(BitOr(BitOr(r * 65536, g * 256), b)), 6)

-----------------------------------------------------------------------------
(* SurfaceGenerator.generate.  params is [density, height, color, color2,  *)
(* colorMode, noise, gridWidth, gridDepth]; gridWidth and gridDepth are    *)
(* <<>> when the property is absent and <<value>> otherwise.               *)

\* Math.sin(u * Math.PI * 2) and Math.cos(u * Math.PI * 2) for u in [0, 1]:
\* exact at the quarter turns, Bhaskara's rational approximation between
SinTurn(u) ==
    LET half(x) == LET p == RMul(x, RSub(One, x))
                   IN  RDiv(RMul(R(16, 1), p), RSub(R(5, 1), RMul(R(4, 1), p)))
    IN  IF RLe(u, R(1, 2)) THEN half(RMul(R(2, 1), u))
        ELSE RNeg(half(RSub(RMul(R(2, 1), u), One)))

CosTurn(u) ==
    IF RLe(u, R(3, 4)) THEN SinTurn(RAdd(u, R(1, 4)))
    ELSE SinTurn(RSub(u, R(3, 4)))

\* the k-th value Math.random() returns during a call, k = 0, 1, ...; the
\* generator's hidden state at the start of the call is seed
MathRandom(seed, k) == R((5 * seed + 3 * k) % 8, 8)

\* the hidden states that make a difference to a call: Math.random is
\* called only if (noise > 0)
SeedsFor(params) == IF RLt(Zero, params.noise) THEN {0, 1} ELSE {0}

\* const { ..., gridWidth = 400, gridDepth = 400 } = params
GridWidthOf(params) == IF params.gridWidth = <<>> THEN R(400, 1) ELSE params.gridWidth[1]

GridDepthOf(params) == IF params.gridDepth = <<>> THEN R(400, 1) ELSE params.gridDepth[1]

\* lines 24-27: vRadius, vHeight and yRaw of the row t
Generate_row(verticalCurve, params, t) ==
    LET vHeight == cubicBezier(t, verticalCurve[1].y, verticalCurve[2].y,
                               verticalCurve[3].y, verticalCurve[4].y)
    IN  [vRadius |-> cubicBezier(t, verticalCurve[1].x, verticalCurve[2].x,
                                 verticalCurve[3].x, verticalCurve[4].x),
         vHeight |-> vHeight,
         yRaw    |-> RMul(RMul(vHeight, params.height), R(400, 1))]

\* lines 32-56 with the radius of revolution mode scaled by the horizontal
\* curve's first anchor
Generate_position_shaped(horizontalCurve, params, mode, row, t, u) ==
    LET rBase == RMul(RMul(RDiv(GridWidthOf(params), R(2, 1)), row.vRadius),
                      horizontalCurve[1].x)
    IN  [x |-> RMul(CosTurn(u), rBase),
         y |-> RNeg(row.yRaw),
         z |-> RMul(SinTurn(u), rBase)]

\* lines 32-56: finalX, finalY, finalZ before the jitter
Generate_position(horizontalCurve, params, mode, row, t, u) ==
    LET gridWidth_ == GridWidthOf(params)
        gridDepth_ == GridDepthOf(params)
    IN  IF mode = "revolution"
        THEN LET rBase == RMul(RDiv(gridWidth_, R(2, 1)), row.vRadius)
             IN  [x |-> RMul(CosTurn(u), rBase),
                  y |-> RNeg(row.yRaw),
                  z |-> RMul(SinTurn(u), rBase)]
        ELSE IF mode = "sheet"
        THEN LET hHeight == cubicBezier(u, horizontalCurve[1].y, horizontalCurve[2].y,
                                        horizontalCurve[3].y, horizontalCurve[4].y)
                 combinedY == RMul(RMul(RAdd(row.vHeight, hHeight), params.height),
                                   RDiv(gridWidth_, R(2, 1)))
             IN  [x |-> RMul(RSub(u, R(1, 2)), gridWidth_),
                  y |-> RNeg(combinedY),
                  z |-> RMul(RSub(t, R(1, 2)), gridDepth_)]
        ELSE LET rawX == cubicBezier(u, horizontalCurve[1].x, horizontalCurve[2].x,
                                     horizontalCurve[3].x, horizontalCurve[4].x)
                 rawZ == cubicBezier(u, horizontalCurve[1].y, horizontalCurve[2].y,
                                     horizontalCurve[3].y, horizontalCurve[4].y)
                 baseX == RMul(RSub(rawX, R(1, 2)), gridWidth_)
                 baseZ == RMul(RSub(rawZ, R(1, 2)), gridDepth_)
             IN  [x |-> RMul(baseX, row.vRadius),
                  y |-> RNeg(row.yRaw),
                  z |-> RMul(baseZ, row.vRadius)]

\* lines 58-64: the jitter added if (noise > 0); k counts the points pushed
\* before this one, each of which drew three random numbers
Generate_jitter(params, pos, k, seed) ==
    IF RLt(Zero, params.noise)
    THEN [x |-> RAdd(pos.x, RMul(RSub(MathRandom(seed, 3 * k), R(1, 2)),
                                 RMul(params.noise, R(20, 1)))),
          y |-> RAdd(pos.y, RMul(RSub(MathRandom(seed, 3 * k + 1), R(1, 2)),
                                 RMul(params.noise, R(20, 1)))),
          z |-> RAdd(pos.z, RMul(RSub(MathRandom(seed, 3 * k + 2), R(1, 2)),
                                 RMul(params.noise, R(20, 1))))]
    ELSE pos

\* lines 66-82: the color and the pushed point
Generate_push(params, row, final) ==
    [x |-> final.x, y |-> final.y, z |-> final.z,
     color |-> IF params.colorMode = "height"
               THEN interpolateColor(params.color, params.color2, row.vHeight)
               ELSE IF params.colorMode = "depth"
               THEN interpolateColor(params.color, params.color2,
                        MathMax(Zero, MathMin(One,
                            RDiv(RAdd(final.z, RDiv(GridDepthOf(params), R(2, 1))),
                                 GridDepthOf(params)))))
               ELSE params.color]

\* the body of the inner loop for the row t
Generate_inRow(horizontalCurve, params, mode, row, t, u, k, seed) ==
    Generate_push(params, row,
        Generate_jitter(params,
            Generate_position(horizontalCurve, params, mode, row, t, u), k, seed))

\* lines 21-82: the point pushed for t and u
Generate_pointAt(verticalCurve, horizontalCurve, params, mode, t, u, k, seed) ==
    Generate_inRow(horizontalCurve, params, mode,
                   Generate_row(verticalCurve, params, t), t, u, k, seed)

\* the point pushed in pass j of the inner loop of pass i of the outer loop
Generate_cell(verticalCurve, horizontalCurve, params, mode, i, j, seed) ==
    Generate_pointAt(verticalCurve, horizontalCurve, params, mode,
                     R(i, params.density), R(j, params.density),
                     i * (params.density + 1) + j, seed)

\* for (let j = ...; j <= steps; j++)
RECURSIVE Generate_inner(_, _, _, _, _, _, _)
Generate_inner(verticalCurve, horizontalCurve, params, mode, i, j, seed) ==
    IF j > params.density THEN <<>>
    ELSE << Generate_cell(verticalCurve, horizontalCurve, params, mode, i, j, seed) >>
         \o Generate_inner(verticalCurve, horizontalCurve, params, mode, i, j + 1, seed)

\* for (let i = ...; i <= steps; i++)
RECURSIVE Generate_outer(_, _, _, _, _, _)
Generate_outer(verticalCurve, horizontalCurve, params, mode, i, seed) ==
    IF i > params.density THEN <<>>
    ELSE Generate_inner(verticalCurve, horizontalCurve, params, mode, i, 0, seed)
         \o Generate_outer(verticalCurve, horizontalCurve, params, mode, i + 1, seed)

\* vRadius / vHeight of every row, in loop order
Generate_rows(verticalCurve, params) ==
    [i \in 1..(params.density + 1) |->
        Generate_row(verticalCurve, params, R(i - 1, params.density))]

\* reading .x or .y of verticalCurve[k] / horizontalCurve[k], k in 0..3, is a
\* TypeError when the curve has no such entry; the first pass of the loops
\* reads them all (the horizontal curve is not read in revolution mode)
Generate_throws(verticalCurve, horizontalCurve, params, mode) ==
    /\ params.density >= 0
    /\ \/ Len(verticalCurve) < 4
       \/ mode # "revolution" /\ Len(horizontalCurve) < 4

\* this.points keeps what it held
Generate_reset_skipped(old) == old

\* this.points = []
Generate_reset(old) == <<>>

\* the call's outcome: raised, this.points afterwards (the returned array
\* when the call returns), and the rows' vRadius / vHeight
generate(verticalCurve, horizontalCurve, params, mode, old, seed) ==
    IF Generate_throws(verticalCurve, horizontalCurve, params, mode)
    THEN [raised |-> TRUE, points |-> Generate_reset(old), rows |-> <<>>]
    ELSE [raised |-> FALSE,
          points |-> Generate_reset(old)
                     \o Generate_outer(verticalCurve, horizontalCurve, params, mode, 0, seed),
          rows   |-> Generate_rows(verticalCurve, params)]

-----------------------------------------------------------------------------
(* Matrix helpers of WebGPURenderer: column-major 4x4 matrices, JS index k *)
(* is element k+1 of the tuple                                             *)

\* one pass of the k loop: sum = 0; sum += a[k*4+i] * b[j*4+k]
\* for (let k = 0; k < 4; k++) sum += a[k * 4 + i] * b[j * 4 + k]
RECURSIVE Renderer_dot(_, _, _, _, _, _)
Renderer_dot(a, b, i, j, k, sum) ==
    IF k >= 4 THEN sum
    ELSE Renderer_dot(a, b, i, j, k + 1,
                        RAdd(sum, RMul(a[k * 4 + i + 1], b[j * 4 + k + 1])))

\* out[j * 4 + i] = sum, for i and j in 0..3: element n of the result is
\* out[n - 1]
Renderer_mat4Multiply(a, b) ==
    [n \in 1..16 |-> Renderer_dot(a, b, (n - 1) % 4, (n - 1) \div 4, 0, Zero)]

Renderer_mat4RotateY(angle) ==
    LET c == MathCos(angle)
        s == MathSin(angle)
    IN  << c, Zero, RNeg(s), Zero,
           Zero, One, Zero, Zero,
           s, Zero, c, Zero,
           Zero, Zero, Zero, One >>

Renderer_mat4RotateX(angle) ==
    LET c == MathCos(angle)
        s == MathSin(angle)
    IN  << One, Zero, Zero, Zero,
           Zero, c, s, Zero,
           Zero, RNeg(s), c, Zero,
           Zero, Zero, Zero, One >>

Renderer_mat4Translate(x, y, z) ==
    << One, Zero, Zero, Zero,
       Zero, One, Zero, Zero,
       Zero, Zero, One, Zero,
       x, y, z, One >>

Renderer_mat4Perspective(tanHalf, aspect, near, far) ==
    LET f == RDiv(One, tanHalf)
    IN  << RDiv(f, aspect), Zero, Zero, Zero,
           Zero, RNeg(f), Zero, Zero,
           Zero, Zero, RDiv(far, RSub(near, far)), RNeg(One),
           Zero, Zero, RDiv(RMul(far, near), RSub(near, far)), Zero >>

\* (canvas.width / canvas.height) || 1.0 : 0 and NaN are falsy
Renderer_aspect(w, h) ==
    LET a == RDiv(R(w, 1), R(h, 1))
    IN  IF isNaN(a) \/ a = Zero THEN One ELSE a

\* the "Safety checks for NaN" of updateUniforms, applied to the fields
Renderer_sanitize(cam) ==
    [angleX  |-> IF isNaN(cam.angleX) THEN Zero ELSE cam.angleX,
     angleY  |-> IF isNaN(cam.angleY) THEN Zero ELSE cam.angleY,
     zoom    |-> IF isNaN(cam.zoom) \/ cam.zoom = Zero THEN One ELSE cam.zoom,
     offsetX |-> IF isNaN(cam.offsetX) THEN Zero ELSE cam.offsetX,
     offsetY |-> IF isNaN(cam.offsetY) THEN Zero ELSE cam.offsetY]

Renderer_dist(z) == RDiv(R(1000, 1), z)

Renderer_modelMat(ax, ay) ==
    Renderer_mat4Multiply(Renderer_mat4RotateX(ax), Renderer_mat4RotateY(ay))

\* updateUniforms: the matrix written at offset 0 of the uniform buffer,
\* built from the already sanitized fields
Renderer_mvpMat(cam, w, h) ==
    LET modelMat == Renderer_modelMat(cam.angleX, cam.angleY)
        viewMat  == Renderer_mat4Translate(cam.offsetX, cam.offsetY,
                                           RNeg(Renderer_dist(cam.zoom)))
        projMat  == Renderer_mat4Perspective(TanHalfFov, Renderer_aspect(w, h),
                                             One, R(5000, 1))
        mvMat    == Renderer_mat4Multiply(viewMat, modelMat)
    IN  Renderer_mat4Multiply(projMat, mvMat)

\* vert_main: centerPos = uniforms.mvpMatrix * vec4(pos, 1.0)
Shader_centerPos(m, pos) ==
    << RAdd(RAdd(RAdd(RMul(m[1], pos.x), RMul(m[5], pos.y)), RMul(m[9], pos.z)), m[13]),
       RAdd(RAdd(RAdd(RMul(m[2], pos.x), RMul(m[6], pos.y)), RMul(m[10], pos.z)), m[14]),
       RAdd(RAdd(RAdd(RMul(m[3], pos.x), RMul(m[7], pos.y)), RMul(m[11], pos.z)), m[15]),
       RAdd(RAdd(RAdd(RMul(m[4], pos.x), RMul(m[8], pos.y)), RMul(m[12], pos.z)), m[16]) >>

\* vert_main: size = uniforms.pointSize, scaled by 1000 / centerPos.w only
\* if centerPos.w > 0.  The quad corner is moved by quadPos * size *
\* (2 / screenSize) in normalized device coordinates, which is quadPos * size
\* canvas pixels, and the fragment stage keeps the disc inscribed in the
\* quad: size is the disc's radius in canvas pixels
Shader_size(pointSize, w) ==
    IF RLt(Zero, w) THEN RMul(pointSize, RDiv(R(1000, 1), w)) ELSE pointSize

-----------------------------------------------------------------------------
(* Matrix helpers of Exporter (static methods, same layout) *)

\* one pass of the k loop: sum = 0; sum += a[k*4+i] * b[j*4+k]
\* for (let k = 0; k < 4; k++) sum += a[k * 4 + i] * b[j * 4 + k]
RECURSIVE Exporter_dot(_, _, _, _, _, _)
Exporter_dot(a, b, i, j, k, sum) ==
    IF k >= 4 THEN sum
    ELSE Exporter_dot(a, b, i, j, k + 1,
                        RAdd(sum, RMul(a[k * 4 + i + 1], b[j * 4 + k + 1])))

\* out[j * 4 + i] = sum, for i and j in 0..3: element n of the result is
\* out[n - 1]
Exporter_mat4Multiply(a, b) ==
    [n \in 1..16 |-> Exporter_dot(a, b, (n - 1) % 4, (n - 1) \div 4, 0, Zero)]

Exporter_mat4RotateY(angle) ==
    LET c == MathCos(angle)
        s == MathSin(angle)
    IN  << c, Zero, RNeg(s), Zero,
           Zero, One, Zero, Zero,
           s, Zero, c, Zero,
           Zero, Zero, Zero, One >>

Exporter_mat4RotateX(angle) ==
    LET c == MathCos(angle)
        s == MathSin(angle)
    IN  << One, Zero, Zero, Zero,
           Zero, c, s, Zero,
           Zero, RNeg(s), c, Zero,
           Zero, Zero, Zero, One >>

Exporter_mat4Translate(x, y, z) ==
    << One, Zero, Zero, Zero,
       Zero, One, Zero, Zero,
       Zero, Zero, One, Zero,
       x, y, z, One >>

Exporter_mat4Perspective(tanHalf, aspect, near, far) ==
    LET f == RDiv(One, tanHalf)
    IN  << RDiv(f, aspect), Zero, Zero, Zero,
           Zero, RNeg(f), Zero, Zero,
           Zero, Zero, RDiv(far, RSub(near, far)), RNeg(One),
           Zero, Zero, RDiv(RMul(far, near), RSub(near, far)), Zero >>

Exporter_vec4TransformMat4(v, m) ==
    << RAdd(RAdd(RAdd(RMul(m[1], v[1]), RMul(m[5], v[2])), RMul(m[9], v[3])), RMul(m[13], v[4])),
       RAdd(RAdd(RAdd(RMul(m[2], v[1]), RMul(m[6], v[2])), RMul(m[10], v[3])), RMul(m[14], v[4])),
       RAdd(RAdd(RAdd(RMul(m[3], v[1]), RMul(m[7], v[2])), RMul(m[11], v[3])), RMul(m[15], v[4])),
       RAdd(RAdd(RAdd(RMul(m[4], v[1]), RMul(m[8], v[2])), RMul(m[12], v[3])), RMul(m[16], v[4])) >>

Exporter_aspect(width, height) == RDiv(R(width, 1), R(height, 1))

Exporter_dist(z) == RDiv(R(1000, 1), z)

\* a mis-ordered model matrix, RotY * RotX
Exporter_modelMat_swapped(ax, ay) ==
    Exporter_mat4Multiply(Exporter_mat4RotateY(ay), Exporter_mat4RotateX(ax))

Exporter_modelMat(ax, ay) ==
    Exporter_mat4Multiply(Exporter_mat4RotateX(ax), Exporter_mat4RotateY(ay))

\* toSVG, step 1: offX / offY are the only sanitized arguments
Exporter_mvpMat(ax, ay, z, offsetX_, offsetY_, width, height) ==
    LET modelMat == Exporter_modelMat(ax, ay)
        offX     == IF isNaN(offsetX_) THEN Zero ELSE offsetX_
        offY     == IF isNaN(offsetY_) THEN Zero ELSE offsetY_
        viewMat  == Exporter_mat4Translate(offX, offY, RNeg(Exporter_dist(z)))
        projMat  == Exporter_mat4Perspective(TanHalfFov, Exporter_aspect(width, height),
                                             One, R(5000, 1))
        mvMat    == Exporter_mat4Multiply(viewMat, modelMat)
    IN  Exporter_mat4Multiply(projMat, mvMat)

\* toSVG, step 3: the perspective divide
Exporter_ndc(out) ==
    [x |-> RDiv(out[1], out[4]),
     y |-> RDiv(out[2], out[4]),
     z |-> RDiv(out[3], out[4])]

\* toSVG, steps 3-5 for one point with clip coordinates out and normalized
\* device coordinates ndc: <<>> when the point is skipped
Exporter_screen(p, out, ndc, width, height, radius) ==
    IF out[4] = Zero THEN <<>>
    ELSE IF RLt(ndc.z, Zero) \/ RLt(One, ndc.z) THEN <<>>
    ELSE << [x |-> RMul(RAdd(RMul(ndc.x, R(1, 2)), R(1, 2)), R(width, 1)),
             y |-> RMul(RAdd(RMul(RNeg(ndc.y), R(1, 2)), R(1, 2)), R(height, 1)),
             r |-> RMul(radius, RDiv(R(1000, 1), out[4])),
             zDepth |-> ndc.z,
             w |-> out[4],
             color |-> p.color,
             src |-> p] >>

Exporter_clipped(p, out, width, height, radius) ==
    Exporter_screen(p, out, Exporter_ndc(out), width, height, radius)

\* toSVG, steps 2-5 for one point
Exporter_project(p, mvpMat, width, height, radius) ==
    Exporter_clipped(p, Exporter_vec4TransformMat4(<<p.x, p.y, p.z, One>>, mvpMat),
                     width, height, radius)

RECURSIVE Exporter_transformed(_, _, _, _, _)
Exporter_transformed(pts, mvpMat, width, height, radius) ==
    IF pts = <<>> THEN <<>>
    ELSE Exporter_project(Head(pts), mvpMat, width, height, radius)
         \o Exporter_transformed(Tail(pts), mvpMat, width, height, radius)

\* a comparator that orders near points first: a.zDepth - b.zDepth < 0
Exporter_before_nearFirst(a, b) == RLt(a.zDepth, b.zDepth)

\* the comparator (a, b) => b.zDepth - a.zDepth puts a before b when its
\* result is negative, which is when b.zDepth < a.zDepth; a NaN result
\* (a NaN operand, or two equal infinities) is taken as 0
Exporter_before(a, b) == RLt(b.zDepth, a.zDepth)

\* Array.prototype.sort, one entry: e put into the sorted sequence s behind
\* every entry that the comparator does not place after it, so that the
\* order of entries which compare equal is kept
RECURSIVE Exporter_insert(_, _)
Exporter_insert(s, e) ==
    IF s = <<>> THEN << e >>
    ELSE IF Exporter_before(e, Head(s)) THEN << e >> \o s
    ELSE << Head(s) >> \o Exporter_insert(Tail(s), e)

\* transformed.sort(...): the first n entries of a, sorted
RECURSIVE Exporter_sort(_, _)
Exporter_sort(a, n) ==
    IF n = 0 THEN <<>>
    ELSE Exporter_insert(Exporter_sort(a, n - 1), a[n])

\* the circles written, in order: if (p.r < 0.1) continue
RECURSIVE Exporter_circles(_)
Exporter_circles(sorted) ==
    IF sorted = <<>> THEN <<>>
    ELSE (IF RLt(Head(sorted).r, R(1, 10)) THEN <<>> ELSE << Head(sorted) >>)
         \o Exporter_circles(Tail(sorted))

-----------------------------------------------------------------------------
(* State *)

VARIABLES
    \* WebGPURenderer camera fields
    angleX, angleY, zoom, offsetX, offsetY,
    \* canvas.width, canvas.height; parent.clientWidth / clientHeight;
    \* window.devicePixelRatio
    canvasW, canvasH, parentW, parentH, dpr,
    \* navigator.gpu exists; requestAdapter() yields an adapter
    navGpu, adapterOk,
    \* where init() is: "awaitAdapter", "awaitDevice" or "done"
    initPc,
    \* this.device, this.context, this.pipeline, this.uniformBuffer are non-null
    device, context, pipeline, uniformBuffer,
    \* size of this.depthTexture and of the four offscreen textures (<<>>: none)
    depthSize, texSize,
    \* this.vertexBuffer (<<>>: null, else <<number of points uploaded>>),
    \* this.pointCount (-1: undefined), this.gridBuffer is non-null
    vertexBuffer, pointCount, gridBuffer,
    \* _showGrid, _showAxes, _theme, _gridWidth, _gridDepth, _gridOpacity,
    \* _bloomIntensity, _aspectRatio
    showGrid, showAxes, theme, gridWidth, gridDepth, gridOpacity,
    bloomIntensity, aspectRatio,
    \* interaction state
    isDragging, isPanning, lastX, lastY, lastPinchDistance, lastTouchCenter,
    touches,
    \* this.points and this.pointRadius
    points, pointRadius,
    \* content of the camera uniform buffer: <<>> before the first write,
    \* else <<[mvp, dist, cam, w, h]>> as written by updateUniforms
    uniform,
    \* the frame submitted by the current step (<<>>: none)
    frame,
    \* the document produced by the toSVG call of the current step
    svg,
    \* an operation has thrown; number of error reports made by init
    raised, reports,
    \* number of user operations so far (bounded exploration)
    opCount,
    \* window.geometryMode and the SurfaceGenerator's this.points
    geometryMode, genPoints,
    \* main.js: verticalEditor.points, horizontalEditor.points and state
    vCurve, hCurve, state,
    \* outcome of the latest generate call (<<>>: none yet) and of the call
    \* before it
    last, held,
    \* what the arrays returned by those two calls hold now (<<>>: the call
    \* returned no array, else <<contents>>)
    arrays,
    \* a call of a function of math.js: its arguments and, once it has
    \* returned, its results (<<>>: no such call)
    math,
    \* what the render() of a canvas Renderer drew in the current step
    \* (<<>>: no such render)
    canvas2d,
    \* the device queue: the operations not yet executed, in the order of
    \* their calls; the direction held by this.postUniformBuffer; the number
    \* of command buffers submitted and the number of the last one completed
    queue, postUniformBuffer, submitted, completed,
    \* the command buffers executed so far: for each, the direction either
    \* blur pass read
    executed,
    \* the runs of the btnExportPng click handler, and the captures made
    pngHandlers, captures,
    \* the GPU objects created and not destroyed: how many point vertex
    \* buffers, depth textures and sets of offscreen textures (<<>>: not
    \* followed)
    live,
    \* a CurveEditor: its points and its drag fields (<<>>: none constructed)
    editor,
    \* the argument of the latest setPoints call and whether the device was
    \* still missing at that call (<<>>: no call, or not followed)
    supplied,
    \* the GPU objects that init() has created
    created

camVars == <<angleX, angleY, zoom, offsetX, offsetY>>

canvasVars == <<canvasW, canvasH, parentW, parentH, dpr>>

envVars == <<navGpu, adapterOk>>

gpuVars == <<initPc, device, context, pipeline, uniformBuffer, depthSize, texSize,
             vertexBuffer, pointCount, gridBuffer>>

optVars == <<showGrid, showAxes, theme, gridWidth, gridDepth, gridOpacity,
             bloomIntensity, aspectRatio>>

inputVars == <<isDragging, isPanning, lastX, lastY, lastPinchDistance,
               lastTouchCenter, touches>>

obsVars == <<raised, reports, opCount>>

rendererVars == <<camVars, canvasVars, envVars, gpuVars, optVars, inputVars,
                  points, pointRadius, uniform, frame, svg, obsVars>>

genVars == <<geometryMode, genPoints, vCurve, hCurve, state, last, held, arrays>>

queueVars == <<queue, postUniformBuffer, submitted, completed, executed,
               pngHandlers, captures>>

sideVars == <<live, editor, supplied, created>>

otherVars == <<math, canvas2d, queueVars, sideVars>>

vars == <<rendererVars, genVars, otherVars>>

Camera == [angleX |-> angleX, angleY |-> angleY, zoom |-> zoom,
           offsetX |-> offsetX, offsetY |-> offsetY]

-----------------------------------------------------------------------------
(* WebGPURenderer: construction, resize, render, setPoints, setters *)

MathCeil(a) == -((-a[1]) \div a[2])

\* Math.sqrt of a perfect square
MathSqrt(n) == CHOOSE k \in 0..n : k * k = n

\* aspectRatio.split(':').map(Number)
RatioOf(ar) == IF ar = "16:9" THEN <<16, 9>> ELSE IF ar = "4:3" THEN <<4, 3>> ELSE <<1, 1>>

\* resize(): <<finalW, finalH>>
Resize_final(pw, ph, ar) ==
    IF ar = "custom" THEN <<R(pw, 1), R(ph, 1)>>
    ELSE LET targetRatio == RDiv(R(RatioOf(ar)[1], 1), R(RatioOf(ar)[2], 1))
         IN  IF RLt(targetRatio, RDiv(R(pw, 1), R(ph, 1)))
             THEN LET finalH == RMul(R(ph, 1), R(9, 10))
                  IN  <<RMul(finalH, targetRatio), finalH>>
             ELSE LET finalW == RMul(R(pw, 1), R(9, 10))
                  IN  <<finalW, RDiv(finalW, targetRatio)>>

Resize_canvas(pw, ph, ar, ratio) ==
    LET f == Resize_final(pw, ph, ar)
    IN  <<MathCeil(RMul(f[1], R(ratio, 1))), MathCeil(RMul(f[2], R(ratio, 1)))>>

SetCam(cam) ==
    /\ angleX' = cam.angleX
    /\ angleY' = cam.angleY
    /\ zoom' = cam.zoom
    /\ offsetX' = cam.offsetX
    /\ offsetY' = cam.offsetY

\* what updateUniforms leaves in the uniform buffer; the matrix itself is
\* carried only where withMatrix is set.  uniformData[16] is
\* this.pointRadius * window.devicePixelRatio, uniformData[18..19] the
\* canvas size
UniformRecord(cam, w, h, withMatrix) ==
    [mvp  |-> IF withMatrix THEN Renderer_mvpMat(cam, w, h) ELSE <<>>,
     dist |-> Renderer_dist(cam.zoom),
     cam  |-> cam, w |-> w, h |-> h,
     pointSize |-> RMul(pointRadius', R(dpr', 1))]

\* the early returns of render(), updateUniforms(), setPoints() and
\* generateGrid()
Render_returnsEarly == ~device' \/ ~context' \/ ~pipeline'

UpdateUniforms_returnsEarly == ~device' \/ ~uniformBuffer'

\* setPoints without its device check
SetPoints_returnsEarly_never == FALSE

SetPoints_returnsEarly == ~device

GenerateGrid_returnsEarly == ~device

\* the passes with the vertical blur encoded before the horizontal one
Render_passes_blurSwapped(lines, instances, gizmo) ==
    << [pass |-> "scene", target |-> "sceneTexture", reads |-> <<>>,
        draws |-> (IF lines THEN <<"grid">> ELSE <<>>)
                  \o (IF instances > 0 THEN <<"points">> ELSE <<>>)
                  \o (IF gizmo THEN <<"gizmo">> ELSE <<>>)],
       [pass |-> "extract", target |-> "brightTexture",
        reads |-> <<"sceneTexture">>, draws |-> <<"triangle">>],
       [pass |-> "blurV", target |-> "blurTextureB",
        reads |-> <<"blurTextureA">>, draws |-> <<"triangle">>],
       [pass |-> "blurH", target |-> "blurTextureA",
        reads |-> <<"brightTexture">>, draws |-> <<"triangle">>],
       [pass |-> "composite", target |-> "surface",
        reads |-> <<"blurTextureB", "sceneTexture">>, draws |-> <<"triangle">>] >>

\* render(): the passes encoded into the command buffer, in order, each
\* with its colour attachment, the textures it binds and its draws.  lines:
\* (showGrid || showAxes) && gridBuffer && linePipeline; instances: the
\* point instances drawn; gizmo: showAxes && axesVertexBuffer
Render_passes(lines, instances, gizmo) ==
    << [pass |-> "scene", target |-> "sceneTexture", reads |-> <<>>,
        draws |-> (IF lines THEN <<"grid">> ELSE <<>>)
                  \o (IF instances > 0 THEN <<"points">> ELSE <<>>)
                  \o (IF gizmo THEN <<"gizmo">> ELSE <<>>)],
       [pass |-> "extract", target |-> "brightTexture",
        reads |-> <<"sceneTexture">>, draws |-> <<"triangle">>],
       [pass |-> "blurH", target |-> "blurTextureA",
        reads |-> <<"brightTexture">>, draws |-> <<"triangle">>],
       [pass |-> "blurV", target |-> "blurTextureB",
        reads |-> <<"blurTextureA">>, draws |-> <<"triangle">>],
       [pass |-> "composite", target |-> "surface",
        reads |-> <<"blurTextureB", "sceneTexture">>, draws |-> <<"triangle">>] >>

\* render(), called at the end of a handler: camIn and gridIn are the camera
\* fields and this.gridBuffer as the handler left them; every other field
\* is read in its new value
RenderStep(camIn, gridIn, withMatrix) ==
    IF Render_returnsEarly
    THEN /\ SetCam(camIn)
         /\ gridBuffer' = gridIn
         /\ UNCHANGED uniform
         /\ frame' = <<>>
    ELSE LET cam == IF UpdateUniforms_returnsEarly THEN camIn
                    ELSE Renderer_sanitize(camIn)
         IN  /\ SetCam(cam)
             /\ uniform' = IF UpdateUniforms_returnsEarly THEN uniform
                           ELSE << UniformRecord(cam, canvasW', canvasH', withMatrix) >>
             \* if (!this.gridBuffer && (showGrid || showAxes)) generateGrid()
             /\ gridBuffer' = IF ~gridIn /\ (showGrid' \/ showAxes') THEN showGrid'
                              ELSE gridIn
             /\ frame' = << [cam |-> cam,
                             dist |-> Renderer_dist(cam.zoom),
                             w |-> canvasW', h |-> canvasH',
                             depthSize |-> depthSize', texSize |-> texSize',
                             instances |-> IF vertexBuffer' # <<>> /\ pointCount' > 0
                                           THEN pointCount' ELSE 0,
                             passes |-> Render_passes(
                                 (showGrid' \/ showAxes') /\ gridBuffer',
                                 IF vertexBuffer' # <<>> /\ pointCount' > 0
                                 THEN pointCount' ELSE 0,
                                 showAxes')] >>

\* generateGrid() as called by a setter: the new this.gridBuffer
GenerateGrid(show) == IF GenerateGrid_returnsEarly THEN gridBuffer ELSE show

\* a TypeError: the handler stops, nothing after the failing statement runs
Throws ==
    /\ raised' = TRUE
    /\ frame' = <<>>

\* the constructor: fields, init() up to its first await, resize()
RendererConstructed ==
    /\ angleX = Zero /\ angleY = Zero /\ zoom = One
    /\ offsetX = Zero /\ offsetY = Zero
    /\ isDragging = FALSE /\ isPanning = FALSE
    /\ lastX = 0 /\ lastY = 0
    /\ lastPinchDistance = 0 /\ lastTouchCenter = <<Zero, Zero>> /\ touches = {}
    /\ pointRadius = R(2, 1)
    /\ points = <<>>
    /\ showAxes = TRUE /\ showGrid = TRUE /\ gridOpacity = R(1, 2)
    /\ theme = "dark" /\ aspectRatio = "custom"
    /\ gridWidth = 400 /\ gridDepth = 400 /\ bloomIntensity = Zero
    /\ device = FALSE /\ context = FALSE /\ pipeline = FALSE
    /\ uniformBuffer = FALSE
    /\ depthSize = <<>> /\ texSize = <<>>
    /\ vertexBuffer = <<>> /\ pointCount = -1 /\ gridBuffer = FALSE
    /\ uniform = <<>> /\ frame = <<>> /\ svg = <<>>
    /\ raised = FALSE
    /\ opCount = 0
    \* init(): if (!navigator.gpu) { console.error; alert; return }
    /\ initPc = IF navGpu THEN "awaitAdapter" ELSE "done"
    /\ reports = IF navGpu THEN 0 ELSE 1
    /\ LET c == Resize_canvas(parentW, parentH, "custom", dpr)
       IN  canvasW = c[1] /\ canvasH = c[2]

\* offscreen textures created once and kept
CreateTextures_stale(old, w, h) == IF old = <<>> THEN <<w, h>> ELSE old

\* createTextures() with a device: the size of sceneTexture, brightTexture,
\* blurTextureA and blurTextureB afterwards (old: their size before)
CreateTextures(old, w, h) == <<w, h>>

\* init() resumes after requestAdapter()
AdapterResolved ==
    /\ UNCHANGED genVars
    /\ initPc = "awaitAdapter"
    /\ IF adapterOk
       THEN /\ initPc' = "awaitDevice"
            /\ UNCHANGED reports
       ELSE /\ initPc' = "done"
            /\ reports' = reports + 1
    /\ frame' = <<>> /\ svg' = <<>>
    /\ UNCHANGED <<camVars, canvasVars, envVars, device, context, pipeline,
                   uniformBuffer, depthSize, texSize, vertexBuffer, pointCount,
                   gridBuffer, optVars, inputVars, points, pointRadius, uniform,
                   raised>>

\* init() resumes after requestDevice() and runs to its end: context,
\* pipelines, uniform buffers, depth texture, post-processing resources,
\* gizmo, then setPoints(this.points) or render()
DeviceResolved(withMatrix) ==
    /\ UNCHANGED genVars
    /\ initPc = "awaitDevice"
    /\ initPc' = "done"
    /\ device' = TRUE /\ context' = TRUE /\ pipeline' = TRUE
    /\ uniformBuffer' = TRUE
    /\ depthSize' = <<canvasW, canvasH>>
    /\ texSize' = CreateTextures(texSize, canvasW, canvasH)
    /\ IF Len(points) > 0
       THEN /\ vertexBuffer' = <<Len(points)>>
            /\ pointCount' = Len(points)
       ELSE UNCHANGED <<vertexBuffer, pointCount>>
    /\ UNCHANGED <<canvasVars, envVars, optVars, inputVars, points, pointRadius,
                   raised, reports>>
    /\ svg' = <<>>
    /\ RenderStep(Camera, gridBuffer, withMatrix)

\* resize(), from the window resize listener
Resize(pw, ph, withMatrix) ==
    /\ UNCHANGED genVars
    /\ parentW' = pw /\ parentH' = ph
    /\ LET c == Resize_canvas(pw, ph, aspectRatio, dpr)
       IN  canvasW' = c[1] /\ canvasH' = c[2]
    /\ IF device
       THEN /\ depthSize' = <<canvasW', canvasH'>>
            /\ texSize' = CreateTextures(texSize, canvasW', canvasH')
       ELSE UNCHANGED <<depthSize, texSize>>
    /\ UNCHANGED <<dpr, envVars, initPc, device, context, pipeline, uniformBuffer,
                   vertexBuffer, pointCount, optVars, inputVars, points,
                   pointRadius, raised, reports>>
    /\ svg' = <<>>
    /\ IF device THEN RenderStep(Camera, gridBuffer, withMatrix)
       ELSE /\ UNCHANGED <<camVars, gridBuffer, uniform>>
            /\ frame' = <<>>

\* set aspectRatio(val) { this._aspectRatio = val; this.resize(); }
SetAspectRatio(val, withMatrix) ==
    /\ UNCHANGED genVars
    /\ aspectRatio' = val
    /\ LET c == Resize_canvas(parentW, parentH, val, dpr)
       IN  canvasW' = c[1] /\ canvasH' = c[2]
    /\ IF device
       THEN /\ depthSize' = <<canvasW', canvasH'>>
            /\ texSize' = CreateTextures(texSize, canvasW', canvasH')
       ELSE UNCHANGED <<depthSize, texSize>>
    /\ UNCHANGED <<parentW, parentH, dpr, envVars, initPc, device, context,
                   pipeline, uniformBuffer, vertexBuffer, pointCount, showGrid,
                   showAxes, theme, gridWidth, gridDepth, gridOpacity,
                   bloomIntensity, inputVars, points, pointRadius, raised, reports>>
    /\ svg' = <<>>
    /\ IF device THEN RenderStep(Camera, gridBuffer, withMatrix)
       ELSE /\ UNCHANGED <<camVars, gridBuffer, uniform>>
            /\ frame' = <<>>

\* setPoints(points): what it assigns
SetPoints_body(pts, withMatrix) ==
    /\ points' = pts
    /\ IF SetPoints_returnsEarly
       THEN /\ UNCHANGED <<camVars, vertexBuffer, pointCount, gridBuffer, uniform,
                           raised>>
            /\ frame' = <<>>
       ELSE IF ~device
       THEN \* this.device.createBuffer on a null device
            /\ Throws
            /\ UNCHANGED <<camVars, vertexBuffer, pointCount, gridBuffer, uniform>>
       ELSE /\ vertexBuffer' = <<Len(pts)>>
            /\ pointCount' = Len(pts)
            /\ UNCHANGED raised
            /\ RenderStep(Camera, gridBuffer, withMatrix)

\* what setPoints leaves alone, besides pointRadius
SetPoints_frame ==
    /\ svg' = <<>>
    /\ UNCHANGED <<canvasVars, envVars, initPc, device, context, pipeline,
                   uniformBuffer, depthSize, texSize, optVars, inputVars, reports>>

\* a setPoints call that forgets its argument when it returns early
SetPoints_forgetful(pts, withMatrix) ==
    /\ UNCHANGED <<genVars, pointRadius>>
    /\ SetPoints_frame
    /\ IF SetPoints_returnsEarly
       THEN /\ UNCHANGED <<points, camVars, vertexBuffer, pointCount, gridBuffer,
                           uniform, raised>>
            /\ frame' = <<>>
       ELSE SetPoints_body(pts, withMatrix)

\* renderer.setPoints(points)
SetPoints(pts, withMatrix) ==
    /\ UNCHANGED <<genVars, pointRadius>>
    /\ SetPoints_frame
    /\ SetPoints_body(pts, withMatrix)

\* what a setter leaves alone besides the options, the grid buffer and
\* what render() writes
SetterFrame ==
    /\ UNCHANGED genVars
    /\ svg' = <<>>
    /\ UNCHANGED <<canvasVars, envVars, initPc, device, context, pipeline,
                   uniformBuffer, depthSize, texSize, vertexBuffer, pointCount,
                   inputVars, points, pointRadius, raised, reports>>

NoRender ==
    /\ UNCHANGED <<camVars, gridBuffer, uniform>>
    /\ frame' = <<>>

\* set showGrid(val): if changed, store, generateGrid(), render()
SetShowGrid(val, withMatrix) ==
    /\ showGrid' = val
    /\ UNCHANGED <<showAxes, theme, gridWidth, gridDepth, gridOpacity,
                   bloomIntensity, aspectRatio>>
    /\ SetterFrame
    /\ IF showGrid # val
       THEN RenderStep(Camera, GenerateGrid(val), withMatrix)
       ELSE NoRender

SetShowAxes(val, withMatrix) ==
    /\ showAxes' = val
    /\ UNCHANGED <<showGrid, theme, gridWidth, gridDepth, gridOpacity,
                   bloomIntensity, aspectRatio>>
    /\ SetterFrame
    /\ IF showAxes # val
       THEN RenderStep(Camera, GenerateGrid(showGrid), withMatrix)
       ELSE NoRender

SetTheme(val, withMatrix) ==
    /\ theme' = val
    /\ UNCHANGED <<showGrid, showAxes, gridWidth, gridDepth, gridOpacity,
                   bloomIntensity, aspectRatio>>
    /\ SetterFrame
    /\ IF theme # val
       THEN RenderStep(Camera, GenerateGrid(showGrid), withMatrix)
       ELSE NoRender

SetGridWidth(val, withMatrix) ==
    /\ gridWidth' = val
    /\ UNCHANGED <<showGrid, showAxes, theme, gridDepth, gridOpacity,
                   bloomIntensity, aspectRatio>>
    /\ SetterFrame
    /\ IF gridWidth # val
       THEN RenderStep(Camera, GenerateGrid(showGrid), withMatrix)
       ELSE NoRender

SetGridDepth(val, withMatrix) ==
    /\ gridDepth' = val
    /\ UNCHANGED <<showGrid, showAxes, theme, gridWidth, gridOpacity,
                   bloomIntensity, aspectRatio>>
    /\ SetterFrame
    /\ IF gridDepth # val
       THEN RenderStep(Camera, GenerateGrid(showGrid), withMatrix)
       ELSE NoRender

\* set gridOpacity(val): if changed, store and render()
SetGridOpacity(val, withMatrix) ==
    /\ gridOpacity' = val
    /\ UNCHANGED <<showGrid, showAxes, theme, gridWidth, gridDepth,
                   bloomIntensity, aspectRatio>>
    /\ SetterFrame
    /\ IF gridOpacity # val
       THEN RenderStep(Camera, gridBuffer, withMatrix)
       ELSE NoRender

\* set bloomIntensity(val): store and render()
SetBloomIntensity(val, withMatrix) ==
    /\ bloomIntensity' = val
    /\ UNCHANGED <<showGrid, showAxes, theme, gridWidth, gridDepth, gridOpacity,
                   aspectRatio>>
    /\ SetterFrame
    /\ RenderStep(Camera, gridBuffer, withMatrix)


-----------------------------------------------------------------------------
(* WebGPURenderer.setupEvents: pointer, wheel and touch handlers.  A touch *)
(* list is a sequence of touches [id, x, y].                               *)

\* what the input handlers leave alone
InputFrame ==
    /\ svg' = <<>>
    /\ UNCHANGED <<canvasVars, envVars, initPc, device, context, pipeline,
                   uniformBuffer, depthSize, texSize, vertexBuffer, pointCount,
                   optVars, points, pointRadius, raised, reports, genVars>>

\* angleY += dx * 0.01; angleX -= dy * 0.01
Rotated(cam, dx, dy) ==
    [cam EXCEPT !.angleY = RAdd(cam.angleY, RMul(R(dx, 1), R(1, 100))),
                !.angleX = RSub(cam.angleX, RMul(R(dy, 1), R(1, 100)))]

\* offsetX += dx; offsetY += dy
Panned(cam, dx, dy) ==
    [cam EXCEPT !.offsetX = RAdd(cam.offsetX, dx),
                !.offsetY = RAdd(cam.offsetY, dy)]

\* Math.max(0.1, Math.min(20, zoom * factor))
ZoomClamp(z, factor) == MathMax(R(1, 10), MathMin(R(20, 1), RMul(z, factor)))

PointerDown(button, x, y) ==
    /\ lastX' = x /\ lastY' = y
    /\ isDragging' = IF button = 0 THEN TRUE ELSE isDragging
    /\ isPanning' = IF button # 0 /\ button = 1 THEN TRUE ELSE isPanning
    /\ UNCHANGED <<lastPinchDistance, lastTouchCenter, touches>>
    /\ InputFrame
    /\ NoRender

\* onMove, the window's pointermove listener
PointerMove(x, y) ==
    /\ UNCHANGED <<isDragging, isPanning, lastPinchDistance, lastTouchCenter,
                   touches>>
    /\ InputFrame
    /\ IF isDragging
       THEN /\ lastX' = x /\ lastY' = y
            /\ RenderStep(Rotated(Camera, x - lastX, y - lastY), gridBuffer, FALSE)
       ELSE IF isPanning
       THEN /\ lastX' = x /\ lastY' = y
            /\ RenderStep(Panned(Camera, R(x - lastX, 1), R(y - lastY, 1)),
                          gridBuffer, FALSE)
       ELSE /\ UNCHANGED <<lastX, lastY>>
            /\ NoRender

\* onUp, the window's pointerup listener
PointerUp ==
    /\ isDragging' = FALSE /\ isPanning' = FALSE
    /\ UNCHANGED <<lastX, lastY, lastPinchDistance, lastTouchCenter, touches>>
    /\ InputFrame
    /\ NoRender

\* wheel: delta = e.deltaY > 0 ? 0.9 : 1.1
Wheel(deltaYPositive) ==
    /\ UNCHANGED inputVars
    /\ InputFrame
    /\ RenderStep([Camera EXCEPT !.zoom =
                      ZoomClamp(zoom, IF deltaYPositive THEN R(9, 10) ELSE R(11, 10))],
                  gridBuffer, FALSE)

TouchIds(tl) == {tl[k].id : k \in 1..Len(tl)}

\* Math.sqrt(dx * dx + dy * dy) between the first two touches
PinchDistance(tl) ==
    MathSqrt((tl[2].x - tl[1].x) * (tl[2].x - tl[1].x)
             + (tl[2].y - tl[1].y) * (tl[2].y - tl[1].y))

TouchCenter(tl) == << R(tl[1].x + tl[2].x, 2), R(tl[1].y + tl[2].y, 2) >>

TouchStart(tl) ==
    /\ touches' = touches \cup TouchIds(tl)
    /\ IF Len(tl) = 1
       THEN /\ lastX' = tl[1].x /\ lastY' = tl[1].y
            /\ isDragging' = TRUE
            /\ UNCHANGED <<lastPinchDistance, lastTouchCenter>>
       ELSE IF Len(tl) = 2
       THEN /\ isDragging' = FALSE
            /\ lastPinchDistance' = PinchDistance(tl)
            /\ lastTouchCenter' = TouchCenter(tl)
            /\ UNCHANGED <<lastX, lastY>>
       ELSE UNCHANGED <<lastX, lastY, isDragging, lastPinchDistance, lastTouchCenter>>
    /\ UNCHANGED isPanning
    /\ InputFrame
    /\ NoRender

TouchMove(tl) ==
    /\ UNCHANGED <<isDragging, isPanning, touches>>
    /\ InputFrame
    /\ IF Len(tl) = 1 /\ isDragging
       THEN /\ lastX' = tl[1].x /\ lastY' = tl[1].y
            /\ UNCHANGED <<lastPinchDistance, lastTouchCenter>>
            /\ RenderStep(Rotated(Camera, tl[1].x - lastX, tl[1].y - lastY),
                          gridBuffer, FALSE)
       ELSE IF Len(tl) = 2
       THEN LET currentDistance == PinchDistance(tl)
                currentCenter   == TouchCenter(tl)
                zoomed == IF lastPinchDistance > 0
                          THEN [Camera EXCEPT !.zoom =
                                   ZoomClamp(zoom, R(currentDistance, lastPinchDistance))]
                          ELSE Camera
            IN  /\ lastPinchDistance' = currentDistance
                /\ lastTouchCenter' = currentCenter
                /\ UNCHANGED <<lastX, lastY>>
                /\ RenderStep(Panned(zoomed,
                                     RSub(currentCenter[1], lastTouchCenter[1]),
                                     RSub(currentCenter[2], lastTouchCenter[2])),
                              gridBuffer, FALSE)
       ELSE /\ UNCHANGED <<lastX, lastY, lastPinchDistance, lastTouchCenter>>
            /\ NoRender

\* touchend: tl is e.touches, the touches that remain
TouchEnd(tl) ==
    /\ touches' = touches \cap TouchIds(tl)
    /\ IF Len(tl) = 0
       THEN /\ isDragging' = FALSE /\ isPanning' = FALSE
            /\ lastPinchDistance' = 0
            /\ UNCHANGED <<lastX, lastY>>
       ELSE IF Len(tl) = 1
       THEN /\ lastX' = tl[1].x /\ lastY' = tl[1].y
            /\ isDragging' = TRUE
            /\ lastPinchDistance' = 0
            /\ UNCHANGED isPanning
       ELSE UNCHANGED <<lastX, lastY, isDragging, isPanning, lastPinchDistance>>
    /\ UNCHANGED lastTouchCenter
    /\ InputFrame
    /\ NoRender

TouchCancel ==
    /\ touches' = {}
    /\ isDragging' = FALSE /\ isPanning' = FALSE
    /\ lastPinchDistance' = 0
    /\ UNCHANGED <<lastX, lastY, lastTouchCenter>>
    /\ InputFrame
    /\ NoRender

-----------------------------------------------------------------------------
(* main.js: state, the editors' curves, update() and the handlers of the   *)
(* zoom slider and of the export and reset buttons                         *)

createPoint(x, y, dx1, dy1, dx2, dy2) ==
    [x |-> x, y |-> y, cp1 |-> [dx |-> dx1, dy |-> dy1], cp2 |-> [dx |-> dx2, dy |-> dy2]]

\* CurveEditor constructor / reset(), isVertical
EditorVertical ==
    << createPoint(R(1, 2), Zero, R(-1, 10), Zero, R(1, 10), Zero),
       createPoint(R(4, 5), R(1, 2), Zero, R(-1, 10), Zero, R(1, 10)),
       createPoint(R(1, 2), One, R(1, 10), Zero, R(-1, 10), Zero) >>

\* CurveEditor constructor / reset(), not isVertical
EditorHorizontal ==
    << createPoint(Zero, R(1, 2), Zero, R(1, 5), Zero, R(-1, 5)),
       createPoint(R(1, 2), R(1, 10), R(-1, 5), Zero, R(1, 5), Zero),
       createPoint(One, R(1, 2), Zero, R(-1, 5), Zero, R(1, 5)) >>

Purple == <<"#", "7", "c", "4", "d", "f", "f">>

Blue == <<"#", "0", "0", "a", "a", "f", "f">>

\* const state = { density: 30, height: 1, radius: 2, color, color2,
\* colorMode: 'solid', noise: 0 }: no gridWidth, no gridDepth
DefaultState ==
    [density |-> 30, height |-> One, radius |-> R(2, 1),
     color |-> Purple, color2 |-> Blue, colorMode |-> "solid", noise |-> Zero,
     gridWidth |-> <<>>, gridDepth |-> <<>>]

\* the record kept of a generate call
CallRecord(v, h, params, mode, out) ==
    [verticalCurve |-> v, horizontalCurve |-> h, params |-> params,
     geometryMode |-> mode, raised |-> out.raised,
     points |-> IF out.raised THEN <<>> ELSE out.points,
     rows |-> out.rows]

\* line 17, this.points = [] : the array object that the pushes of lines
\* 77-82 fill, given the one this.points named before the call; the same
\* object emptied
Generate_array_cleared(previous) == previous

\* line 17, this.points = [] : the array object that the pushes of lines
\* 77-82 fill, given the one this.points named before the call; a new one
Generate_array(previous) == "new"

\* the arrays returned by the latest two calls after a call with outcome
\* out: the array of the call before is touched only if it is the object
\* the pushes fill; a call that raises returns no array
Generate_arrays(out) ==
    arrays' = [held |-> IF arrays.last # <<>> /\ Generate_array("returned") = "returned"
                        THEN << out.points >>
                        ELSE arrays.last,
               last |-> IF out.raised THEN <<>> ELSE << out.points >>]

\* generator.generate(vCurve, hCurve, state), called directly
Generate(seed) ==
    LET out == generate(vCurve, hCurve, state, geometryMode, genPoints, seed)
    IN  /\ genPoints' = out.points
        /\ held' = last
        /\ Generate_arrays(out)
        /\ last' = << CallRecord(vCurve, hCurve, state, geometryMode, out) >>
        /\ svg' = <<>> /\ frame' = <<>>
        /\ UNCHANGED <<geometryMode, vCurve, hCurve, state, camVars, canvasVars,
                       envVars, gpuVars, optVars, inputVars, points, pointRadius,
                       uniform, raised, reports>>

\* update() with elMode.value = mode, once generate has returned or left
\* behind out: pointRadius and setPoints unless generate raised
Update_after(out, mode, withMatrix) ==
    /\ geometryMode' = mode
    /\ genPoints' = out.points
    /\ held' = last
    /\ Generate_arrays(out)
    /\ last' = << CallRecord(vCurve, hCurve, state, mode, out) >>
    /\ UNCHANGED <<vCurve, hCurve, state>>
    /\ SetPoints_frame
    /\ IF out.raised
       THEN /\ UNCHANGED <<points, pointRadius, vertexBuffer, pointCount, raised>>
            /\ NoRender
       ELSE /\ pointRadius' = state.radius
            /\ SetPoints_body(out.points, withMatrix)

\* update() with elMode.value = mode
Update(mode, seed, withMatrix) ==
    Update_after(generate(vCurve, hCurve, state, mode, genPoints, seed),
                 mode, withMatrix)

\* elZoom input: renderer.zoom = parseFloat(e.target.value); renderer.render()
ZoomSlider(value) ==
    /\ UNCHANGED inputVars
    /\ InputFrame
    /\ RenderStep([Camera EXCEPT !.zoom = value], gridBuffer, FALSE)

\* toSVG from the sort on: the circle elements of the document, in the
\* order they are written
Exporter_svgContent(doc) ==
    doc @@ [circles |-> Exporter_circles(
                            Exporter_sort(doc.transformed, Len(doc.transformed)))]

\* Exporter.toSVG(points, angleX, angleY, zoom, offsetX, offsetY, width,
\* height, radius, ...): what it computes and writes; the matrix, the
\* projected points and the circles are carried only where withMatrix is set
Exporter_toSVG(pts, ax, ay, z, offsetX_, offsetY_, width, height, radius, withMatrix) ==
    LET mvpMat == Exporter_mvpMat(ax, ay, z, offsetX_, offsetY_, width, height)
    IN  Exporter_svgContent(
          [mvp  |-> IF withMatrix THEN mvpMat ELSE <<>>,
           dist |-> Exporter_dist(z),
           cam  |-> [angleX |-> ax, angleY |-> ay, zoom |-> z,
                     offsetX |-> offsetX_, offsetY |-> offsetY_],
           w |-> width, h |-> height,
           transformed |-> IF withMatrix
                           THEN Exporter_transformed(pts, mvpMat, width, height, radius)
                           ELSE <<>>])

\* btnExportSvg click: toSVG with the renderer's fields and state.radius
ExportSvg(withMatrix) ==
    /\ svg' = << Exporter_toSVG(points, angleX, angleY, zoom, offsetX, offsetY,
                                canvasW, canvasH, state.radius, withMatrix) >>
    /\ frame' = <<>>
    /\ UNCHANGED <<camVars, canvasVars, envVars, gpuVars, optVars, inputVars,
                   points, pointRadius, uniform, raised, reports, genVars>>

\* btnReset click: state and zoom reset, aspectRatio = 'custom' (resize and,
\* with a device, render), both editors reset, update() with elMode.value
\* = 'sweep', of which generate has returned or left behind out
ResetClick_after(out) ==
    LET camIn == [Camera EXCEPT !.zoom = One]
        c     == Resize_canvas(parentW, parentH, "custom", dpr)
    IN  /\ state' = DefaultState
        /\ vCurve' = EditorVertical /\ hCurve' = EditorHorizontal
        /\ geometryMode' = "sweep"
        /\ genPoints' = out.points
        /\ held' = last
        /\ Generate_arrays(out)
        /\ last' = << CallRecord(EditorVertical, EditorHorizontal, DefaultState,
                                 "sweep", out) >>
        /\ aspectRatio' = "custom"
        /\ canvasW' = c[1] /\ canvasH' = c[2]
        /\ IF device
           THEN /\ depthSize' = <<canvasW', canvasH'>>
                /\ texSize' = CreateTextures(texSize, canvasW', canvasH')
           ELSE UNCHANGED <<depthSize, texSize>>
        /\ svg' = <<>>
        /\ UNCHANGED <<parentW, parentH, dpr, envVars, initPc, device, context,
                       pipeline, uniformBuffer, showGrid, showAxes, theme,
                       gridWidth, gridDepth, gridOpacity, bloomIntensity,
                       inputVars, raised, reports>>
        /\ IF out.raised
           THEN UNCHANGED <<points, pointRadius, vertexBuffer, pointCount>>
           ELSE /\ points' = out.points
                /\ pointRadius' = DefaultState.radius
                /\ IF device
                   THEN /\ vertexBuffer' = <<Len(out.points)>>
                        /\ pointCount' = Len(out.points)
                   ELSE UNCHANGED <<vertexBuffer, pointCount>>
        /\ IF device THEN RenderStep(camIn, gridBuffer, FALSE)
           ELSE /\ SetCam(camIn)
                /\ UNCHANGED <<gridBuffer, uniform>>
                /\ frame' = <<>>

\* btnReset click
ResetClick(seed) ==
    ResetClick_after(generate(EditorVertical, EditorHorizontal, DefaultState,
                              "sweep", genPoints, seed))

-----------------------------------------------------------------------------
(* The canvas Renderer (Renderer.js): render() on the 2d context, with the *)
(* rotation and projection helpers of math.js                              *)

\* rotateY(x, y, z, angle)
rotateY(x, y, z, angle) ==
    [x |-> RSub(RMul(x, MathCos(angle)), RMul(z, MathSin(angle))),
     y |-> y,
     z |-> RAdd(RMul(x, MathSin(angle)), RMul(z, MathCos(angle)))]

\* rotateX(x, y, z, angle)
rotateX(x, y, z, angle) ==
    [x |-> x,
     y |-> RSub(RMul(y, MathCos(angle)), RMul(z, MathSin(angle))),
     z |-> RAdd(RMul(y, MathSin(angle)), RMul(z, MathCos(angle)))]

\* project3D(x, y, z, centerX, centerY) with fov = 400
project3D(x, y, z, centerX, centerY) ==
    [x |-> RAdd(RMul(x, RDiv(R(400, 1), RAdd(R(400, 1), z))), centerX),
     y |-> RAdd(RMul(y, RDiv(R(400, 1), RAdd(R(400, 1), z))), centerY),
     scale |-> RDiv(R(400, 1), RAdd(R(400, 1), z))]

\* this.points.map(p => ...): zoom, rotateY, rotateX, project3D
Canvas_transformed(pts, ax, ay, z, cx, cy) ==
    [k \in 1..Len(pts) |->
        LET r0 == rotateY(RMul(pts[k].x, z), RMul(pts[k].y, z), RMul(pts[k].z, z), ay)
            r  == rotateX(r0.x, r0.y, r0.z, ax)
        IN  project3D(r.x, r.y, r.z, cx, cy)
              @@ [zDepth |-> r.z, color |-> pts[k].color, src |-> pts[k]]]

\* transformed.sort((a, b) => b.zDepth - a.zDepth)
Canvas_before(a, b) == RLt(b.zDepth, a.zDepth)

\* Array.prototype.sort, one entry: e put into the sorted sequence s behind
\* every entry that the comparator does not place after it
RECURSIVE Canvas_insert(_, _)
Canvas_insert(s, e) ==
    IF s = <<>> THEN << e >>
    ELSE IF Canvas_before(e, Head(s)) THEN << e >> \o s
    ELSE << Head(s) >> \o Canvas_insert(Tail(s), e)

\* the first n entries of a, sorted
RECURSIVE Canvas_sort(_, _)
Canvas_sort(a, n) ==
    IF n = 0 THEN <<>>
    ELSE Canvas_insert(Canvas_sort(a, n - 1), a[n])

\* the drawing loop from entry i on: the arcs filled, in order, without the
\* radius and the fill style (the hover loop before it picks the one arc
\* drawn highlighted and at twice the radius; it changes neither which arcs
\* are drawn nor their order)
RECURSIVE Canvas_arcs(_, _)
Canvas_arcs(sorted, i) ==
    IF i >= Len(sorted) THEN <<>>
    ELSE (IF RLe(sorted[i + 1].scale, Zero) THEN <<>>
          ELSE << [x |-> sorted[i + 1].x, y |-> sorted[i + 1].y,
                   scale |-> sorted[i + 1].scale,
                   zDepth |-> sorted[i + 1].zDepth,
                   color |-> sorted[i + 1].color,
                   src |-> sorted[i + 1].src] >>)
         \o Canvas_arcs(sorted, i + 1)

\* what transformed.sort(...) may leave: the sorted sequence, or, with an
\* inconsistent comparator, the entries in an order the implementation
\* chooses.  The comparator is a consistent one unless some depth is NaN,
\* which it takes as equal to every other, while two depths differ
Canvas_sortOutcomes(transformed) ==
    IF (\E k \in 1..Len(transformed) : isNaN(transformed[k].zDepth)) =>
          \A i, j \in 1..Len(transformed) :
             ~RLt(transformed[i].zDepth, transformed[j].zDepth)
    THEN { Canvas_sort(transformed, Len(transformed)) }
    ELSE { [k \in 1..Len(transformed) |-> transformed[f[k]]] :
             f \in { g \in [1..Len(transformed) -> 1..Len(transformed)] :
                        \A i, j \in 1..Len(transformed) : g[i] = g[j] => i = j } }

\* Renderer.render() of a Renderer with these fields on a width x height
\* canvas: the drawings it may make
Canvas_render(pts, ax, ay, z, width, height) ==
    { [arcs |-> Canvas_arcs(sorted, 0)] :
        sorted \in Canvas_sortOutcomes(
                      Canvas_transformed(pts, ax, ay, z,
                                         RDiv(R(width, 1), R(2, 1)),
                                         RDiv(R(height, 1), R(2, 1)))) }

-----------------------------------------------------------------------------
(* Camera transform: render() and toSVG applied to camera states *)

\* values the camera fields are given: finite values, NaN and Infinity
AngleXValues == {Zero, R(1, 2), NaN, Infinity}

AngleYValues == {Zero, R(-1, 2), NaN}

ZoomValues == {One, R(2, 1), R(1, 10), Zero, R(-1, 1), NaN, Infinity}

OffsetXValues == {Zero, R(10, 1), NaN}

OffsetYValues == {Zero, Infinity}

CanvasSizes == {<<400, 200>>, <<300, 300>>}

Pt(x, y, z, c) == [x |-> R(x, 1), y |-> R(y, 1), z |-> R(z, 1), color |-> c]

SamplePoints == << Pt(0, 0, 0, Purple), Pt(100, -50, 20, Blue),
                   Pt(-40, 30, 900, Purple) >>

\* init() as if it returned where createPostProcessingResources() is called
Init_created_beforePost ==
    {"context", "pipeline", "linePipeline", "uniformBuffer", "axesUniformBuffer",
     "depthTexture"}

\* the objects init() creates in its run after requestDevice(), which has
\* no await: the context, both pipelines, both uniform buffers, the depth
\* texture, then in createPostProcessingResources() the three post-process
\* pipelines, the post uniform buffer, the sampler and, in createTextures(),
\* the four offscreen textures, then the gizmo's vertex buffer
Init_created ==
    {"context", "pipeline", "linePipeline", "uniformBuffer", "axesUniformBuffer",
     "depthTexture",
     "extract", "blur", "composite", "postUniformBuffer", "sampler",
     "sceneTexture", "brightTexture", "blurTextureA", "blurTextureB",
     "axesVertexBuffer"}

\* object lifetimes and setPoints arguments are not followed, no
\* CurveEditor is constructed
SideIdle ==
    /\ live = <<>> /\ editor = <<>> /\ supplied = <<>>
    /\ created = IF device THEN Init_created ELSE {}

\* nothing has been put on the device queue; createBuffer leaves
\* this.postUniformBuffer zeroed; btnExportPng has not been clicked
QueueIdle ==
    /\ queue = <<>>
    /\ postUniformBuffer = [direction |-> <<0, 0>>]
    /\ submitted = 0 /\ completed = 0
    /\ executed = <<>>
    /\ pngHandlers = <<>> /\ captures = <<>>

\* SurfaceGenerator and CurveEditor constructors, state; window.geometryMode
\* not assigned yet
GeneratorConstructed ==
    /\ geometryMode = "undefined"
    /\ genPoints = <<>>
    /\ vCurve = EditorVertical /\ hCurve = EditorHorizontal
    /\ state = DefaultState
    /\ last = <<>>
    /\ held = <<>>
    /\ arrays = [held |-> <<>>, last |-> <<>>]

\* a renderer in a pw x ph parent whose init() has finished, with a device
\* (dev) or without, holding pts; the camera fields are left open
RendererInitDoneAt(dev, pw, ph, ratio, pts) ==
    /\ parentW = pw /\ parentH = ph
    /\ dpr = ratio
    /\ canvasW = Resize_canvas(pw, ph, "custom", ratio)[1]
    /\ canvasH = Resize_canvas(pw, ph, "custom", ratio)[2]
    /\ device = dev
    /\ navGpu = dev /\ adapterOk = TRUE
    /\ initPc = "done"
    /\ reports = IF dev THEN 0 ELSE 1
    /\ context = dev /\ pipeline = dev /\ uniformBuffer = dev
    /\ depthSize = IF dev THEN <<canvasW, canvasH>> ELSE <<>>
    /\ texSize = IF dev THEN <<canvasW, canvasH>> ELSE <<>>
    /\ points = pts
    /\ vertexBuffer = IF dev /\ Len(pts) > 0 THEN <<Len(pts)>> ELSE <<>>
    /\ pointCount = IF dev /\ Len(pts) > 0 THEN Len(pts) ELSE -1
    /\ gridBuffer = dev
    /\ showAxes = TRUE /\ showGrid = TRUE /\ gridOpacity = R(1, 2)
    /\ theme = "dark" /\ aspectRatio = "custom"
    /\ gridWidth = 400 /\ gridDepth = 400 /\ bloomIntensity = Zero
    /\ isDragging = FALSE /\ isPanning = FALSE
    /\ lastX = 0 /\ lastY = 0
    /\ lastPinchDistance = 0 /\ lastTouchCenter = <<Zero, Zero>> /\ touches = {}
    /\ pointRadius = R(2, 1)
    /\ uniform = <<>> /\ frame = <<>> /\ svg = <<>>
    /\ raised = FALSE
    /\ opCount = 0

\* the same with window.devicePixelRatio = 1
RendererInitDone(dev, w, h, pts) == RendererInitDoneAt(dev, w, h, 1, pts)

\* the camera fields have just been assigned
MvpInit ==
    /\ angleX \in AngleXValues
    /\ angleY \in AngleYValues
    /\ zoom \in ZoomValues
    /\ offsetX \in OffsetXValues
    /\ offsetY \in OffsetYValues
    /\ \E sz \in CanvasSizes, dev \in BOOLEAN :
          RendererInitDone(dev, sz[1], sz[2], SamplePoints)
    /\ GeneratorConstructed
    /\ math = <<>>
    /\ canvas2d = <<>>
    /\ QueueIdle
    /\ SideIdle

\* render()
MvpRender ==
    /\ svg' = <<>>
    /\ UNCHANGED <<canvasVars, envVars, initPc, device, context, pipeline,
                   uniformBuffer, depthSize, texSize, vertexBuffer, pointCount,
                   optVars, inputVars, points, pointRadius, obsVars, genVars,
                   math, queueVars, sideVars>>
    /\ canvas2d' = <<>>
    /\ RenderStep(Camera, gridBuffer, TRUE)

\* btnExportSvg click.  Every handler that assigns a camera field calls
\* render() before it returns, so with a device the click comes after that
\* render
MvpExportSvg ==
    /\ device => uniform # <<>>
    /\ ExportSvg(TRUE)
    /\ UNCHANGED <<opCount, otherVars>>

\* render() of a canvas Renderer holding the same points, angles and zoom
\* on a canvas of the same size
MvpCanvasRender ==
    /\ \E drawing \in Canvas_render(points, angleX, angleY, zoom, canvasW, canvasH) :
          canvas2d' = << drawing >>
    /\ svg' = <<>> /\ frame' = <<>>
    /\ UNCHANGED <<camVars, canvasVars, envVars, gpuVars, optVars, inputVars,
                   points, pointRadius, uniform, obsVars, genVars, math,
                   queueVars, sideVars>>

MvpNext == MvpRender \/ MvpExportSvg \/ MvpCanvasRender

SpecMvp == MvpInit /\ [][MvpNext]_vars

-----------------------------------------------------------------------------
(* Point sizes: render() and the SVG export on displays of several device   *)
(* pixel ratios, with a valid camera                                        *)

DprValues == {1, 2, 3}

SizeAngleXValues == {Zero, R(1, 2)}

SizeAngleYValues == {Zero, R(-1, 2)}

SizeZoomValues == {One, R(2, 1), R(1, 10)}

SizeOffsetXValues == {Zero, R(10, 1)}

SizeInit ==
    /\ angleX \in SizeAngleXValues
    /\ angleY \in SizeAngleYValues
    /\ zoom \in SizeZoomValues
    /\ offsetX \in SizeOffsetXValues
    /\ offsetY = Zero
    /\ \E sz \in CanvasSizes, dev \in BOOLEAN, ratio \in DprValues :
          RendererInitDoneAt(dev, sz[1], sz[2], ratio, SamplePoints)
    /\ GeneratorConstructed
    /\ math = <<>>
    /\ canvas2d = <<>>
    /\ QueueIdle
    /\ SideIdle

SizeNext == MvpRender \/ MvpExportSvg

SpecSize == SizeInit /\ [][SizeNext]_vars

-----------------------------------------------------------------------------
(* The device queue: render() puts its buffer writes and its command buffer *)
(* on the queue, the device executes them in that order; the PNG export     *)
(* handler waits for the queue between its render and its capture           *)

MaxSubmits == 3

MaxClicks == 2

\* this.device.queue.writeBuffer(this.postUniformBuffer, 0, postData) with
\* postData[2], postData[3] = dir
WriteBuffer(dir) == [op |-> "writeBuffer", direction |-> dir]

\* this.device.queue.submit([commandEncoder.finish()]) for the id-th command
\* buffer; both blur passes bind this.postUniformBuffer at binding 0
Submit(id) == [op |-> "submit", id |-> id]

\* render(): its calls on the device queue, in program order
Render_queueOps(id) ==
    << WriteBuffer(<<0, 0>>), WriteBuffer(<<1, 0>>), WriteBuffer(<<0, 1>>),
       Submit(id) >>

\* render() as a whole
Render_call ==
    /\ svg' = <<>>
    /\ UNCHANGED <<canvasVars, envVars, initPc, device, context, pipeline,
                   uniformBuffer, depthSize, texSize, vertexBuffer, pointCount,
                   optVars, inputVars, points, pointRadius, obsVars, genVars,
                   math, canvas2d, sideVars>>
    /\ RenderStep(Camera, gridBuffer, FALSE)
    /\ IF Render_returnsEarly
       THEN UNCHANGED <<queue, submitted>>
       ELSE /\ queue' = queue \o Render_queueOps(submitted + 1)
            /\ submitted' = submitted + 1

\* the blur fragment stage: postUniforms.direction as the buffer holds it
\* when the pass runs
Blur_direction(buffer) == buffer.direction

\* the device takes the next operation from the queue: a write changes the
\* buffer, a command buffer runs its passes and is complete
QueueExecute ==
    /\ queue # <<>>
    /\ queue' = Tail(queue)
    /\ IF Head(queue).op = "writeBuffer"
       THEN /\ postUniformBuffer' = [direction |-> Head(queue).direction]
            /\ UNCHANGED <<executed, completed>>
       ELSE /\ executed' = Append(executed,
                                  [id |-> Head(queue).id,
                                   blurH |-> Blur_direction(postUniformBuffer),
                                   blurV |-> Blur_direction(postUniformBuffer)])
            /\ completed' = Head(queue).id
            /\ UNCHANGED postUniformBuffer
    /\ UNCHANGED <<rendererVars, genVars, sideVars, math, canvas2d, submitted, pngHandlers,
                   captures>>

\* a handler without the await
Png_awaits_never(dev) == FALSE

\* if (renderer.device) await renderer.device.queue.onSubmittedWorkDone()
Png_awaits(dev) == dev

\* Exporter.toPNG: canvas.toBlob copies the canvas when it is called;
\* rendered is the command buffer the handler's render() submitted (0: none)
Exporter_toPNG(rendered) ==
    [render |-> rendered, completed |-> completed, submitted |-> submitted]

\* btnExportPng click up to its await: render(), then either the promise of
\* onSubmittedWorkDone, which covers the work submitted so far, or the
\* capture at once
PngClick ==
    /\ Len(pngHandlers) < MaxClicks
    /\ submitted < MaxSubmits
    /\ Render_call
    /\ IF Png_awaits(device)
       THEN /\ pngHandlers' = Append(pngHandlers,
                                     [pc |-> "await",
                                      render |-> IF Render_returnsEarly THEN 0
                                                 ELSE submitted',
                                      until |-> submitted'])
            /\ UNCHANGED captures
       ELSE /\ pngHandlers' = Append(pngHandlers,
                                     [pc |-> "done",
                                      render |-> IF Render_returnsEarly THEN 0
                                                 ELSE submitted',
                                      until |-> submitted'])
            /\ captures' = Append(captures,
                                  Exporter_toPNG(IF Render_returnsEarly THEN 0
                                                 ELSE submitted'))
    /\ UNCHANGED <<postUniformBuffer, executed, completed>>

\* the promise is resolved once the queue has completed the work it covers;
\* the handler goes on: Exporter.toPNG(renderer.canvas, ...)
PngResume(h) ==
    /\ pngHandlers[h].pc = "await"
    /\ completed >= pngHandlers[h].until
    /\ pngHandlers' = [pngHandlers EXCEPT ![h].pc = "done"]
    /\ captures' = Append(captures, Exporter_toPNG(pngHandlers[h].render))
    /\ UNCHANGED <<rendererVars, genVars, sideVars, math, canvas2d, queue,
                   postUniformBuffer, submitted, completed, executed>>

\* any other event whose handler ends in render()
QueueRender ==
    /\ submitted < MaxSubmits
    /\ Render_call
    /\ UNCHANGED <<postUniformBuffer, executed, completed, pngHandlers, captures>>

QueueInit ==
    /\ angleX = Zero /\ angleY = Zero /\ zoom = One
    /\ offsetX = Zero /\ offsetY = Zero
    /\ \E dev \in BOOLEAN : RendererInitDone(dev, 400, 200, SamplePoints)
    /\ GeneratorConstructed
    /\ math = <<>>
    /\ canvas2d = <<>>
    /\ QueueIdle
    /\ SideIdle

QueueNext ==
    \/ QueueRender
    \/ QueueExecute
    \/ PngClick
    \/ \E h \in 1..Len(pngHandlers) : PngResume(h)

SpecQueue == QueueInit /\ [][QueueNext]_vars

-----------------------------------------------------------------------------
(* The application: the renderer from its construction on, under the user's *)
(* input; every behaviour takes at most MaxOps user operations             *)

MaxOps == 2

Buttons == {0, 1, 2}

PointerPositions == {<<0, 0>>, <<50, 20>>}

Touch(id, x, y) == [id |-> id, x |-> x, y |-> y]

\* e.touches of touchstart and touchmove events
TouchLists ==
    { << Touch(1, 0, 0) >>, << Touch(1, 30, 40) >>,
      << Touch(1, 0, 0), Touch(2, 30, 40) >>,
      << Touch(1, 0, 0), Touch(2, 60, 80) >> }

\* e.touches of touchend events
RemainingTouchLists == { <<>>, << Touch(1, 0, 0) >> }

\* parseFloat(e.target.value) of the zoom slider
SliderValues == {R(1, 2), R(5, 1), Zero, R(-1, 1), R(50, 1), NaN}

ParentSizes == {<<400, 200>>, <<300, 300>>}

AspectRatios == {"custom", "16:9", "1:1"}

GeometryModes == {"sweep", "revolution", "sheet"}

Themes == {"dark", "light"}

GridSizes == {400, 200}

AppInit ==
    /\ navGpu \in BOOLEAN
    /\ adapterOk \in BOOLEAN
    /\ parentW = 400 /\ parentH = 200
    /\ dpr = 1
    /\ RendererConstructed
    /\ GeneratorConstructed
    /\ math = <<>>
    /\ canvas2d = <<>>
    /\ QueueIdle
    /\ SideIdle

\* a user operation
Op(A) ==
    /\ opCount < MaxOps
    /\ opCount' = opCount + 1
    /\ UNCHANGED otherVars
    /\ A

\* the continuations of init() are not user operations
AppInitStep ==
    \/ UNCHANGED <<opCount, otherVars>> /\ AdapterResolved
    \/ /\ UNCHANGED <<opCount, math, canvas2d, queueVars, live, editor, supplied>>
       /\ created' = Init_created
       /\ DeviceResolved(FALSE)

\* the renderer's public operations
AppRenderer ==
    \/ \E sz \in ParentSizes : Op(Resize(sz[1], sz[2], FALSE))
    \/ \E ar \in AspectRatios : Op(SetAspectRatio(ar, FALSE))
    \/ \E pts \in {<<>>, SamplePoints} : Op(SetPoints(pts, FALSE))
    \/ \E b \in BOOLEAN : Op(SetShowGrid(b, FALSE))
    \/ \E b \in BOOLEAN : Op(SetShowAxes(b, FALSE))
    \/ \E th \in Themes : Op(SetTheme(th, FALSE))
    \/ \E g \in GridSizes : Op(SetGridWidth(g, FALSE))
    \/ \E g \in GridSizes : Op(SetGridDepth(g, FALSE))
    \/ \E o \in {R(1, 2), One} : Op(SetGridOpacity(o, FALSE))
    \/ \E b \in {Zero, One} : Op(SetBloomIntensity(b, FALSE))

\* the listeners installed by setupEvents
AppInput ==
    \/ \E b \in Buttons, p \in PointerPositions : Op(PointerDown(b, p[1], p[2]))
    \/ \E p \in PointerPositions : Op(PointerMove(p[1], p[2]))
    \/ Op(PointerUp)
    \/ \E down \in BOOLEAN : Op(Wheel(down))
    \/ \E tl \in TouchLists : Op(TouchStart(tl))
    \/ \E tl \in TouchLists : Op(TouchMove(tl))
    \/ \E tl \in RemainingTouchLists : Op(TouchEnd(tl))
    \/ Op(TouchCancel)

\* the listeners installed by main.js
AppMain ==
    \/ \E v \in SliderValues : Op(ZoomSlider(v))
    \/ \E seed \in SeedsFor(DefaultState) : Op(ResetClick(seed))
    \/ Op(ExportSvg(FALSE))
    \/ \E m \in GeometryModes, seed \in SeedsFor(state) : Op(Update(m, seed, FALSE))

AppNext == AppInitStep \/ AppRenderer \/ AppInput \/ AppMain

SpecApp == AppInit /\ [][AppNext]_vars

-----------------------------------------------------------------------------
(* GPU object lifetimes: the renderer from its construction on, under       *)
(* setPoints, resize and the aspect-ratio setter, with the objects it       *)
(* creates counted; every behaviour takes at most MaxLifeOps operations     *)

MaxLifeOps == 3

\* setPoints with a device: this.vertexBuffer = this.device.createBuffer(...)
\* replaces the reference; nothing calls destroy() on the buffer it held
Live_setPoints(l, dev) ==
    IF dev THEN [l EXCEPT !.vertexBuffers = @ + 1] ELSE l

\* createDepthTexture() and createTextures() with a device assign new
\* textures; nothing calls destroy() on the ones held before
Live_resize(l, dev) ==
    IF dev THEN [l EXCEPT !.depthTextures = @ + 1, !.textureSets = @ + 1] ELSE l

\* init() after requestDevice(): createDepthTexture(),
\* createPostProcessingResources(), then setPoints if points were supplied
Live_init(l, pts) ==
    Live_setPoints(Live_resize(l, TRUE), Len(pts) > 0)

LifeFrame ==
    /\ opCount < MaxLifeOps
    /\ opCount' = opCount + 1
    /\ UNCHANGED <<math, canvas2d, queueVars, editor, created>>

LifeAdapterResolved ==
    /\ UNCHANGED <<opCount, otherVars>>
    /\ AdapterResolved

LifeDeviceResolved ==
    /\ UNCHANGED <<opCount, math, canvas2d, queueVars, editor, supplied>>
    /\ created' = Init_created
    /\ DeviceResolved(FALSE)
    /\ live' = Live_init(live, points)

LifeSetPoints ==
    /\ LifeFrame
    /\ \E pts \in {<<>>, SamplePoints} :
          /\ SetPoints(pts, FALSE)
          /\ supplied' = << [points |-> pts, early |-> ~device] >>
    /\ live' = Live_setPoints(live, device)

LifeResize ==
    /\ LifeFrame
    /\ \E sz \in ParentSizes : Resize(sz[1], sz[2], FALSE)
    /\ live' = Live_resize(live, device)
    /\ UNCHANGED supplied

LifeSetAspectRatio ==
    /\ LifeFrame
    /\ \E ar \in AspectRatios : SetAspectRatio(ar, FALSE)
    /\ live' = Live_resize(live, device)
    /\ UNCHANGED supplied

\* the garbage collector may reclaim an object that nothing refers to any
\* more, at any time after its reference was replaced
LifeCollect ==
    /\ \E f \in {"vertexBuffers", "depthTextures", "textureSets"} :
          /\ live[f] > 1
          /\ live' = [live EXCEPT ![f] = @ - 1]
    /\ UNCHANGED <<rendererVars, genVars, math, canvas2d, queueVars, editor,
                   supplied, created>>

LifeInit ==
    /\ navGpu = TRUE
    /\ adapterOk = TRUE
    /\ parentW = 400 /\ parentH = 200
    /\ dpr = 1
    /\ RendererConstructed
    /\ GeneratorConstructed
    /\ math = <<>>
    /\ canvas2d = <<>>
    /\ QueueIdle
    /\ editor = <<>>
    /\ supplied = <<>>
    /\ created = {}
    /\ live = [vertexBuffers |-> 0, depthTextures |-> 0, textureSets |-> 0]

LifeNext ==
    \/ LifeAdapterResolved
    \/ LifeDeviceResolved
    \/ LifeSetPoints
    \/ LifeResize
    \/ LifeSetAspectRatio
    \/ LifeCollect

SpecLife == LifeInit /\ [][LifeNext]_vars

-----------------------------------------------------------------------------
(* CurveEditor.js: the curve held by an editor and its mouse handlers       *)

MaxEditorOps == 3

\* the canvas of the editor, as resize() leaves it
EditorCanvasW == 400

EditorCanvasH == 450

TOP_MARGIN == 100

BOTTOM_MARGIN == 50

LEFT_MARGIN == 50

RIGHT_MARGIN == 50

hitRadiusSq == 225

\* toCanvas(p)
Editor_toCanvas(p) ==
    LET w == EditorCanvasW - LEFT_MARGIN - RIGHT_MARGIN
        h == EditorCanvasH - TOP_MARGIN - BOTTOM_MARGIN
    IN  [x |-> RAdd(R(LEFT_MARGIN, 1), RMul(p.x, R(w, 1))),
         y |-> RSub(R(EditorCanvasH - BOTTOM_MARGIN, 1), RMul(p.y, R(h, 1)))]

\* fromCanvas(x, y): the clamp is commented out in the source
Editor_fromCanvas(x, y) ==
    LET w == EditorCanvasW - LEFT_MARGIN - RIGHT_MARGIN
        h == EditorCanvasH - TOP_MARGIN - BOTTOM_MARGIN
    IN  [x |-> RDiv(RSub(x, R(LEFT_MARGIN, 1)), R(w, 1)),
         y |-> RDiv(RSub(R(EditorCanvasH - BOTTOM_MARGIN, 1), y), R(h, 1))]

\* distSq(p1, p2)
Editor_distSq(p1, p2) ==
    RAdd(RMul(RSub(p1.x, p2.x), RSub(p1.x, p2.x)),
         RMul(RSub(p1.y, p2.y), RSub(p1.y, p2.y)))

Editor_hit(pos, q) == RLt(Editor_distSq(pos, Editor_toCanvas(q)), R(hitRadiusSq, 1))

\* the positions of the pointer, in canvas pixels: the anchors of the
\* default curves, a handle of a default point and an empty place
EditorPositions ==
    { [x |-> R(c[1], 1), y |-> R(c[2], 1)] :
        c \in {<<200, 400>>, <<290, 250>>, <<200, 100>>, <<290, 220>>,
               <<100, 300>>, <<50, 250>>, <<200, 370>>, <<350, 250>>} }

\* the buttons of a mouse event: left and right
EditorButtons == {0, 2}

\* constructor: the default curve, nothing selected, nothing dragged
Editor_constructed(isVertical) ==
    [points        |-> IF isVertical THEN EditorVertical ELSE EditorHorizontal,
     isVertical    |-> isVertical,
     selectedPoint |-> -1,
     dragHandle    |-> 0,
     dragIndex     |-> -1,
     hoverIndex    |-> -1,
     event         |-> "constructor",
     threw         |-> FALSE,
     ops           |-> 0]

\* onMouseDown: what the loop body finds at index i (0-based): 0 the anchor,
\* 1 or 2 a handle of the selected point, -1 nothing
MouseDown_grab(e, pos, i) ==
    LET p == e.points[i + 1]
    IN  IF Editor_hit(pos, p) THEN 0
        ELSE IF i = e.selectedPoint
                /\ Editor_hit(pos, [x |-> RAdd(p.x, p.cp1.dx), y |-> RAdd(p.y, p.cp1.dy)])
             THEN 1
        ELSE IF i = e.selectedPoint
                /\ Editor_hit(pos, [x |-> RAdd(p.x, p.cp2.dx), y |-> RAdd(p.y, p.cp2.dy)])
             THEN 2
        ELSE -1

\* the first index of a set of indices, -1 if there is none (break)
Editor_first(S) == IF S = {} THEN -1 ELSE CHOOSE i \in S : \A j \in S : i <= j

\* onMouseDown(e)
onMouseDown(e, button, pos) ==
    IF button # 0 THEN [e EXCEPT !.event = "mousedown", !.threw = FALSE]
    ELSE
    LET hits == {i \in 0..(Len(e.points) - 1) : MouseDown_grab(e, pos, i) # -1}
        i    == Editor_first(hits)
        g    == IF i = -1 THEN 0 ELSE MouseDown_grab(e, pos, i)
    IN  [e EXCEPT !.dragIndex     = i,
                  !.dragHandle    = g,
                  !.selectedPoint = IF i # -1 /\ g = 0 THEN i ELSE @,
                  !.event         = "mousedown",
                  !.threw         = FALSE]

\* onDoubleClick(e)
onDoubleClick(e, pos) ==
    LET normalized == Editor_fromCanvas(pos.x, pos.y)
        added      == Append(e.points,
                             createPoint(normalized.x, normalized.y,
                                         R(-1, 10), Zero, R(1, 10), Zero))
    IN  [e EXCEPT !.points        = added,
                  !.selectedPoint = Len(added) - 1,
                  !.event         = "dblclick",
                  !.threw         = FALSE]

\* splice(i, 1), i 0-based
Editor_splice(pts, i) == [k \in 1..(Len(pts) - 1) |-> IF k <= i THEN pts[k] ELSE pts[k + 1]]

ContextMenu_removes_any(toRemove, n) == toRemove # -1

\* onContextMenu: the condition under which the point found is removed
ContextMenu_removes(toRemove, n) == toRemove # -1 /\ n > 2

\* onContextMenu(e)
onContextMenu(e, pos) ==
    LET toRemove == Editor_first({i \in 0..(Len(e.points) - 1) :
                                     Editor_hit(pos, e.points[i + 1])})
    IN  IF ContextMenu_removes(toRemove, Len(e.points))
        THEN [e EXCEPT !.points = Editor_splice(e.points, toRemove),
                       !.event  = "removed",
                       !.threw  = FALSE]
        ELSE [e EXCEPT !.event = IF toRemove # -1 THEN "refused" ELSE "missed",
                       !.threw = FALSE]

\* onMouseMove(e): with a dragIndex that names no point, p is undefined and
\* the first access to a property of p throws a TypeError
onMouseMove(e, pos) ==
    IF e.dragIndex # -1
    THEN IF e.dragIndex \notin 0..(Len(e.points) - 1)
         THEN [e EXCEPT !.event = "mousemove", !.threw = TRUE]
         ELSE
         LET normalized == Editor_fromCanvas(pos.x, pos.y)
             p  == e.points[e.dragIndex + 1]
             dx == RSub(normalized.x, p.x)
             dy == RSub(normalized.y, p.y)
             q  == IF e.dragHandle = 0
                   THEN [p EXCEPT !.x = MathMax(Zero, MathMin(One, normalized.x)),
                                  !.y = MathMax(Zero, MathMin(One, normalized.y))]
                   ELSE IF e.dragHandle = 1
                   THEN [p EXCEPT !.cp1 = [dx |-> dx, dy |-> dy],
                                  !.cp2 = [dx |-> RNeg(dx), dy |-> RNeg(dy)]]
                   ELSE [p EXCEPT !.cp2 = [dx |-> dx, dy |-> dy],
                                  !.cp1 = [dx |-> RNeg(dx), dy |-> RNeg(dy)]]
         IN  [e EXCEPT !.points = [@ EXCEPT ![e.dragIndex + 1] = q],
                       !.event  = "mousemove",
                       !.threw  = FALSE]
    ELSE [e EXCEPT !.hoverIndex = Editor_first({i \in 0..(Len(e.points) - 1) :
                                                   Editor_hit(pos, e.points[i + 1])}),
                   !.event      = "mousemove",
                   !.threw      = FALSE]

\* onMouseUp()
onMouseUp(e) == [e EXCEPT !.dragIndex = -1, !.event = "mouseup", !.threw = FALSE]

\* reset()
Editor_reset(e) ==
    [e EXCEPT !.points        = IF e.isVertical THEN EditorVertical ELSE EditorHorizontal,
              !.selectedPoint = -1,
              !.event         = "reset",
              !.threw         = FALSE]

\* one event of the editor: the handler runs whole, nothing else changes
EditorHandles(after) ==
    /\ editor.ops < MaxEditorOps
    /\ editor' = [after EXCEPT !.ops = editor.ops + 1]
    /\ UNCHANGED <<rendererVars, genVars, math, canvas2d, queueVars, live,
                   supplied, created>>

EditorMouseDown ==
    \E button \in EditorButtons, pos \in EditorPositions :
        EditorHandles(onMouseDown(editor, button, pos))

EditorMouseMove == \E pos \in EditorPositions : EditorHandles(onMouseMove(editor, pos))

EditorMouseUp == EditorHandles(onMouseUp(editor))

EditorDoubleClick == \E pos \in EditorPositions : EditorHandles(onDoubleClick(editor, pos))

EditorContextMenu == \E pos \in EditorPositions : EditorHandles(onContextMenu(editor, pos))

EditorReset == EditorHandles(Editor_reset(editor))

EditorInit ==
    /\ navGpu = TRUE
    /\ adapterOk = TRUE
    /\ parentW = 400 /\ parentH = 200
    /\ dpr = 1
    /\ RendererConstructed
    /\ GeneratorConstructed
    /\ math = <<>>
    /\ canvas2d = <<>>
    /\ QueueIdle
    /\ live = <<>>
    /\ supplied = <<>>
    /\ created = {}
    /\ \E isVertical \in BOOLEAN : editor = Editor_constructed(isVertical)

EditorNext ==
    \/ EditorMouseDown
    \/ EditorMouseMove
    \/ EditorMouseUp
    \/ EditorDoubleClick
    \/ EditorContextMenu
    \/ EditorReset

SpecEditor == EditorInit /\ [][EditorNext]_vars

-----------------------------------------------------------------------------
(* Properties of the camera transform (SpecMvp) *)

C2_MatrixEntriesFinite ==
    /\ uniform # <<>> => \A k \in 1..16 : isFinite(uniform[1].mvp[k])
    /\ svg # <<>> => \A k \in 1..16 : isFinite(svg[1].mvp[k])

\* C4: whatever finite zoom was set, zero and negative values included, the
\* camera distance 1000/zoom used by updateUniforms and by toSVG is finite
\* and strictly positive
C4_DistFinitePositive ==
    /\ (uniform # <<>> /\ isFinite(uniform[1].cam.zoom)) =>
           (isFinite(uniform[1].dist) /\ RLt(Zero, uniform[1].dist))
    /\ (svg # <<>> /\ isFinite(svg[1].cam.zoom)) =>
           (isFinite(svg[1].dist) /\ RLt(Zero, svg[1].dist))

-----------------------------------------------------------------------------
(* Properties of the application (SpecApp) *)

\* C3: whenever a frame is rendered or an SVG is exported, the camera zoom
\* it uses lies in [0.1, 20]
C3_ZoomInRange ==
    /\ frame # <<>> =>
          (RLe(R(1, 10), frame[1].cam.zoom) /\ RLe(frame[1].cam.zoom, R(20, 1)))
    /\ svg # <<>> =>
          (RLe(R(1, 10), svg[1].cam.zoom) /\ RLe(svg[1].cam.zoom, R(20, 1)))

\* C5: once init has ended without a device (no navigator.gpu, or no
\* adapter), it has reported exactly once, the device stays null, no
\* operation has raised, and no GPU resource exists or is used: no context,
\* pipeline, buffer or texture, no uniform write, no frame
C5_UnsupportedEnvironment ==
    (initPc = "done" /\ ~(navGpu /\ adapterOk)) =>
        /\ reports = 1
        /\ ~device /\ ~context /\ ~pipeline /\ ~uniformBuffer
        /\ ~raised
        /\ vertexBuffer = <<>> /\ ~gridBuffer
        /\ depthSize = <<>> /\ texSize = <<>>
        /\ uniform = <<>>
        /\ frame = <<>>

\* no adapter, and afterwards points were set and a drag was started
C5_Witness ==
    /\ initPc = "done" /\ navGpu /\ ~adapterOk
    /\ reports = 1
    /\ opCount >= 2
    /\ points = SamplePoints
    /\ isDragging

-----------------------------------------------------------------------------
(* The generator: generate applied, directly and through update(), to     *)
(* curves and parameters drawn at the start                               *)

MaxDensity == 2

\* const K = 0.276
K == R(69, 250)

\* presets.vase.vertical
VaseVertical ==
    << createPoint(R(2, 5), Zero, R(1, 10), Zero, R(1, 10), Zero),
       createPoint(R(4, 5), R(1, 4), R(-1, 10), R(-1, 10), Zero, R(1, 5)),
       createPoint(R(3, 10), R(3, 5), Zero, R(-1, 10), Zero, R(1, 10)),
       createPoint(R(3, 5), One, R(-1, 10), Zero, R(1, 10), Zero) >>

\* presets.cylinder.vertical
CylinderVertical ==
    << createPoint(One, Zero, Zero, Zero, Zero, Zero),
       createPoint(One, One, Zero, Zero, Zero, Zero) >>

\* a curve of a single point
SinglePointCurve == << createPoint(R(1, 2), R(1, 2), Zero, Zero, Zero, Zero) >>

\* CIRCLE_SHAPE
CircleShape ==
    << createPoint(One, R(1, 2), Zero, RNeg(K), Zero, K),
       createPoint(R(1, 2), One, K, Zero, RNeg(K), Zero),
       createPoint(Zero, R(1, 2), Zero, K, Zero, RNeg(K)),
       createPoint(R(1, 2), Zero, RNeg(K), Zero, K, Zero),
       createPoint(One, R(1, 2), Zero, RNeg(K), Zero, K) >>

VerticalCurves == {VaseVertical, EditorVertical, CylinderVertical, SinglePointCurve}

HorizontalCurves == {CircleShape, EditorHorizontal}

\* the params argument: state as the sliders leave it, with or without a
\* gridWidth of its own; with noise; with a color gradient
GenStates ==
    { [DefaultState EXCEPT !.density = d, !.height = hs, !.gridWidth = gw] :
        d \in 1..MaxDensity, hs \in {One, R(1, 2)}, gw \in {<<>>, <<R(200, 1)>>} }
    \cup { [DefaultState EXCEPT !.density = 1, !.noise = R(1, 10)] }
    \cup { [DefaultState EXCEPT !.density = 1, !.colorMode = cm] :
             cm \in {"height", "depth"} }

GenInit ==
    /\ vCurve \in VerticalCurves
    /\ hCurve \in HorizontalCurves
    /\ state \in GenStates
    /\ geometryMode = "undefined"
    /\ genPoints = <<>>
    /\ last = <<>>
    /\ held = <<>>
    /\ arrays = [held |-> <<>>, last |-> <<>>]
    /\ angleX = Zero /\ angleY = Zero /\ zoom = One
    /\ offsetX = Zero /\ offsetY = Zero
    /\ RendererInitDone(TRUE, 400, 200, <<>>)
    /\ math = <<>>
    /\ canvas2d = <<>>
    /\ QueueIdle
    /\ SideIdle

GenGenerate ==
    /\ UNCHANGED <<opCount, otherVars>>
    /\ \E seed \in SeedsFor(state) : Generate(seed)

GenUpdate ==
    /\ UNCHANGED <<opCount, otherVars>>
    /\ \E m \in GeometryModes, seed \in SeedsFor(state) : Update(m, seed, FALSE)

GenNext == GenGenerate \/ GenUpdate

SpecGen == GenInit /\ [][GenNext]_vars

-----------------------------------------------------------------------------
(* The functions of math.js applied to arguments drawn at the start        *)

TValues == {Zero, R(1, 4), R(1, 3), R(1, 2), R(3, 4), One}

AnchorValues == {<<Zero, Zero>>, <<One, One>>, <<R(1, 2), R(1, 5)>>, <<R(4, 5), One>>}

\* the 2-point curves whose handle offsets are all zero
StraightCurves ==
    { << createPoint(a[1], a[2], Zero, Zero, Zero, Zero),
         createPoint(b[1], b[2], Zero, Zero, Zero, Zero) >> :
        a \in AnchorValues, b \in AnchorValues }

SplineCurves ==
    StraightCurves
      \cup {VaseVertical, EditorVertical, EditorHorizontal, SinglePointCurve, <<>>}

Black == <<"#", "0", "0", "0", "0", "0", "0">>

White == <<"#", "f", "f", "f", "f", "f", "f">>

Gray == <<"#", "0", "a", "8", "0", "f", "5">>

Colors == {Purple, Blue, Black, White, Gray}

MathInit ==
    /\ \/ \E t \in TValues, curve \in SplineCurves, axis \in {"x", "y"} :
             math = [fn |-> "sampleBezierSpline", t |-> t, points |-> curve,
                     axis |-> axis, out |-> <<>>]
       \/ \E color1 \in Colors, color2 \in Colors, t \in TValues, t2 \in TValues :
             /\ RLe(t, t2)
             /\ math = [fn |-> "interpolateColor", color1 |-> color1,
                        color2 |-> color2, t |-> t, t2 |-> t2, out |-> <<>>]
    /\ angleX = Zero /\ angleY = Zero /\ zoom = One
    /\ offsetX = Zero /\ offsetY = Zero
    /\ RendererInitDone(FALSE, 400, 200, <<>>)
    /\ GeneratorConstructed
    /\ canvas2d = <<>>
    /\ QueueIdle
    /\ SideIdle

\* sampleBezierSpline(t, points, axis) returns
SampleBezierSpline ==
    /\ math.fn = "sampleBezierSpline" /\ math.out = <<>>
    /\ math' = [reads |-> sampleBezierSpline_reads(math.t, math.points)]
                @@ [math EXCEPT !.out = << sampleBezierSpline(math.t, math.points,
                                                              math.axis) >>]
    /\ UNCHANGED <<rendererVars, genVars, canvas2d, queueVars, sideVars>>

\* interpolateColor(color1, color2, t) and interpolateColor(color1, color2,
\* t2) return
InterpolateColor ==
    /\ math.fn = "interpolateColor" /\ math.out = <<>>
    /\ math' = [math EXCEPT !.out = << interpolateColor(math.color1, math.color2, math.t),
                                       interpolateColor(math.color1, math.color2, math.t2) >>]
    /\ UNCHANGED <<rendererVars, genVars, canvas2d, queueVars, sideVars>>

MathNext == SampleBezierSpline \/ InterpolateColor

SpecMath == MathInit /\ [][MathNext]_vars

-----------------------------------------------------------------------------
(* Properties of the generator (SpecGen) *)

C7_RowsSampleTheSpline ==
    (last # <<>> /\ ~last[1].raised) =>
        \A i \in 0..last[1].params.density :
            LET v == R(i, last[1].params.density)
            IN  /\ last[1].rows[i + 1].vRadius
                     = sampleBezierSpline(v, last[1].verticalCurve, "x")
                /\ last[1].rows[i + 1].vHeight
                     = sampleBezierSpline(v, last[1].verticalCurve, "y")

\* C8: every call, whatever the lengths of the curves, returns and yields
\* (density+1)^2 points
C8_NeverRaises ==
    last # <<>> =>
        /\ ~last[1].raised
        /\ Len(last[1].points)
             = (last[1].params.density + 1) * (last[1].params.density + 1)

\* C9: every call with density >= 1 returns (density+1)^2 points, and with
\* noise 0 the point at index i*(density+1)+j is the one computed for
\* v = i/density and u = j/density
C9_RowMajorOrder ==
    (last # <<>> /\ last[1].params.density >= 1) =>
        LET c == last[1]
            d == c.params.density
        IN  /\ ~c.raised
            /\ Len(c.points) = (d + 1) * (d + 1)
            /\ c.params.noise = Zero =>
                 \A i \in 0..d, j \in 0..d :
                    c.points[i * (d + 1) + j + 1]
                      = Generate_pointAt(c.verticalCurve, c.horizontalCurve, c.params,
                                         c.geometryMode, R(i, d), R(j, d), 0, 0)

\* C10: in sweep and revolution modes with noise 0, every point's y is
\* -vHeight * heightScale * (gridWidth / 2), vHeight being the row's
C10_HeightScalesWithGridWidth ==
    ( /\ last # <<>> /\ ~last[1].raised
      /\ last[1].params.noise = Zero
      /\ last[1].geometryMode # "sheet" ) =>
        LET c == last[1]
            d == c.params.density
        IN  \A i \in 0..d, j \in 0..d :
               c.points[i * (d + 1) + j + 1].y
                 = RNeg(RMul(RMul(c.rows[i + 1].vHeight, c.params.height),
                             RDiv(GridWidthOf(c.params), R(2, 1))))

\* the horizontal curves a second call may be given in place of the first's
OtherHorizontalCurves == HorizontalCurves \cup {SinglePointCurve}

\* C11: in revolution mode with noise 0, a call given any other horizontal
\* curve, with the same vertical curve and params, has the same outcome and
\* the same point sequence as the call made, and within each row of a
\* returned sequence all points have the same y
C11_RevolutionIgnoresHorizontal ==
    ( /\ last # <<>>
      /\ last[1].geometryMode = "revolution"
      /\ last[1].params.noise = Zero ) =>
        LET c == last[1]
            d == c.params.density
        IN  /\ \A h \in OtherHorizontalCurves :
                  LET other == generate(c.verticalCurve, h, c.params,
                                        "revolution", <<>>, 0)
                  IN  /\ other.raised = c.raised
                      /\ other.points = c.points
            /\ ~c.raised =>
                  \A i \in 0..d, j \in 0..d :
                     c.points[i * (d + 1) + j + 1].y = c.points[i * (d + 1) + 1].y

\* a returning call in revolution mode with noise 0 and density 2 on the
\* circle shape, whose points are not all the same
C11_Witness ==
    /\ last # <<>>
    /\ last[1].geometryMode = "revolution"
    /\ last[1].params.noise = Zero
    /\ last[1].params.density = 2
    /\ last[1].horizontalCurve = CircleShape
    /\ ~last[1].raised
    /\ Len(last[1].points) = 9
    /\ last[1].points[1] # last[1].points[2]
    /\ last[1].points[1].y # last[1].points[4].y

\* C12: the arrays returned by the latest two generate calls hold what
\* they held when they were returned, and the curves and the params object
\* the latest call was given are as they were passed
C12_ReturnedArraysNotMutated ==
    /\ (held # <<>> /\ ~held[1].raised) => arrays.held = << held[1].points >>
    /\ (last # <<>> /\ ~last[1].raised) => arrays.last = << last[1].points >>
    /\ last # <<>> =>
          /\ vCurve = last[1].verticalCurve
          /\ hCurve = last[1].horizontalCurve
          /\ state = last[1].params

\* a returned array is held while a later call returns another sequence
C12_Witness ==
    /\ held # <<>> /\ last # <<>>
    /\ ~held[1].raised /\ ~last[1].raised
    /\ Len(held[1].points) >= 4
    /\ held[1].points # last[1].points
    /\ genPoints = last[1].points

\* C13: after every generate call generator.points is the sequence returned
\* by the latest call that returned: the latest call's if it returned, the
\* one of the call before if the latest call raised
C13_ReplacedAtomically ==
    last # <<>> =>
        IF ~last[1].raised
        THEN genPoints = last[1].points
        ELSE (held # <<>> /\ ~held[1].raised) => genPoints = held[1].points

-----------------------------------------------------------------------------
(* Properties of the exported document's points (SpecMvp) *)

\* the exported document keeps an entry for the point p
Svg_keeps(p) ==
    \E n \in 1..Len(svg[1].transformed) : svg[1].transformed[n].src = p

\* clip coordinates of p under the matrix of the export
Svg_clip(p) == Exporter_vec4TransformMat4(<<p.x, p.y, p.z, One>>, svg[1].mvp)

\* C16: of the points handed to toSVG, exactly those with clip W other than
\* 0 and depth clipZ / clipW within [0, 1] are kept for the sort; a point
\* behind the camera (clip W <= 0) or beyond the far plane (clip W > 5000)
\* is not kept
C16_ClipRule ==
    svg # <<>> =>
        \A k \in 1..Len(points) :
            LET out   == Svg_clip(points[k])
                depth == RDiv(out[3], out[4])
            IN  /\ Svg_keeps(points[k])
                      <=> (out[4] # Zero /\ RLe(Zero, depth) /\ RLe(depth, One))
                /\ (RLe(out[4], Zero) \/ RLt(R(5000, 1), out[4]))
                      => ~Svg_keeps(points[k])

\* C17: the circles of the exported document and the arcs of the canvas
\* Renderer are in far-to-near order: no circle or arc comes before one
\* that is farther from the camera (clip W for the export, rotated z for
\* the canvas), and the sort keys never increase along either sequence
C17_FarToNear ==
    /\ svg # <<>> =>
          \A i, j \in 1..Len(svg[1].circles) :
             i < j => /\ ~RLt(svg[1].circles[i].w, svg[1].circles[j].w)
                      /\ ~RLt(svg[1].circles[i].zDepth, svg[1].circles[j].zDepth)
    /\ canvas2d # <<>> =>
          \A i, j \in 1..Len(canvas2d[1].arcs) :
             i < j => ~RLt(canvas2d[1].arcs[i].zDepth, canvas2d[1].arcs[j].zDepth)

\* an export and a canvas render that each draw three points at three
\* different depths in an order other than the one the points were given in
C17_Witness ==
    /\ svg # <<>> /\ canvas2d # <<>>
    /\ Len(svg[1].circles) = 3
    /\ svg[1].circles[1].src # points[1]
    /\ RLt(svg[1].circles[3].w, svg[1].circles[2].w)
    /\ RLt(svg[1].circles[2].w, svg[1].circles[1].w)
    /\ Len(canvas2d[1].arcs) = 3
    /\ canvas2d[1].arcs[1].src # points[1]
    /\ RLt(canvas2d[1].arcs[3].zDepth, canvas2d[1].arcs[2].zDepth)
    /\ RLt(canvas2d[1].arcs[2].zDepth, canvas2d[1].arcs[1].zDepth)

\* the comparator of the export's sort is a consistent one: the depths it
\* compares are all NaN or all numbers
Exporter_comparatorConsistent ==
    svg # <<>> =>
        \A i, j \in 1..Len(svg[1].transformed) :
            isNaN(svg[1].transformed[i].zDepth) = isNaN(svg[1].transformed[j].zDepth)

-----------------------------------------------------------------------------
(* Properties of the point sizes (SpecSize) *)

\* C18: for the same point, camera state, canvas size and configured point
\* radius, the radius toSVG gives the point's circle equals the radius in
\* canvas pixels that vert_main gives the point's disc, whatever the device
\* pixel ratio
C18_PointSizeParity ==
    (uniform # <<>> /\ svg # <<>>) =>
        LET u == uniform[1]
            s == svg[1]
        IN  (u.cam = s.cam /\ u.w = s.w /\ u.h = s.h /\ pointRadius = state.radius)
            => \A k \in 1..Len(s.transformed) :
                  s.transformed[k].r
                      = Shader_size(u.pointSize,
                                    Shader_centerPos(u.mvp, s.transformed[k].src)[4])

\* the same on a display of device pixel ratio 1
Size_parityAtRatioOne == dpr = 1 => C18_PointSizeParity

-----------------------------------------------------------------------------
(* Properties of the device queue (SpecQueue) *)

\* C19: every capture made by the PNG export handler is made after the
\* command buffer submitted by that handler's render() has been completed by
\* the device queue, whatever was rendered or clicked while the handler was
\* suspended
C19_CaptureAfterRenderDone ==
    \A k \in 1..Len(captures) :
        captures[k].render # 0 => captures[k].completed >= captures[k].render

\* a capture made after another event rendered while the handler waited
C19_Witness ==
    \E k \in 1..Len(captures) :
        /\ captures[k].render # 0
        /\ captures[k].submitted > captures[k].render
        /\ captures[k].completed >= captures[k].render

\* C20: in every frame the first blur pass runs with the direction (1,0)
\* and the second with (0,1): each reads, when the command buffer executes,
\* the direction written for it
C20_BlurDirections ==
    \A k \in 1..Len(executed) :
        executed[k].blurH = <<1, 0>> /\ executed[k].blurV = <<0, 1>>

-----------------------------------------------------------------------------
(* Properties of math.js (SpecMath) *)

\* the two anchors' coordinates on the axis of the call
Math_a == Coord(math.points[1], math.axis)

Math_b == Coord(math.points[2], math.axis)

Math_eased(t) == RSub(RMul(R(3, 1), RMul(t, t)), RMul(R(2, 1), RMul(t, RMul(t, t))))

Math_wellFormed(color) ==
    /\ Len(color) = 7
    /\ color[1] = "#"
    /\ \A k \in 2..7 : \E d \in 1..16 : HexDigits[d] = color[k]

\* x lies between lo and hi, whichever of the two is the larger
Math_between(lo, x, hi) == (lo <= x /\ x <= hi) \/ (hi <= x /\ x <= lo)

\* C15: interpolateColor returns color1 at t = 0 and color2 at t = 1; for
\* 0 <= t <= t2 <= 1 both results are "#" and six hex digits, and each
\* channel goes from color1's to color2's without turning back: the channel
\* at t lies between color1's channel and the channel at t2, which lies
\* between the channel at t and color2's
C15_ColorEndpointsAndMonotone ==
    (math # <<>> /\ math.fn = "interpolateColor" /\ math.out # <<>>) =>
        /\ math.t = Zero => math.out[1] = math.color1
        /\ math.t = One => math.out[1] = math.color2
        /\ math.t2 = Zero => math.out[2] = math.color1
        /\ math.t2 = One => math.out[2] = math.color2
        /\ Math_wellFormed(math.out[1])
        /\ Math_wellFormed(math.out[2])
        /\ \A from \in {1, 3, 5} :
              LET c1 == ParseHexPair(math.color1, from)
                  c2 == ParseHexPair(math.color2, from)
                  x  == ParseHexPair(math.out[1], from)
                  x2 == ParseHexPair(math.out[2], from)
              IN  /\ Math_between(c1, x, x2)
                  /\ Math_between(x, x2, c2)
                  /\ Math_between(0, x, 255)

\* two different colors blended at two different factors strictly inside
\* [0, 1], with different results
C15_Witness ==
    /\ math # <<>> /\ math.fn = "interpolateColor" /\ math.out # <<>>
    /\ math.color1 = Gray /\ math.color2 = Purple
    /\ math.t = R(1, 4) /\ math.t2 = R(3, 4)
    /\ math.out[1] # math.out[2]
    /\ math.out[1][2] = "2"

-----------------------------------------------------------------------------
(* Properties of the frames (SpecApp) *)

Frame_passNames == [k \in 1..Len(frame[1].passes) |-> frame[1].passes[k].pass]

Frame_sceneDraws == frame[1].passes[1].draws

\* C21: a render() with device, context and pipeline writes the camera
\* uniform and records, in one command buffer, scene (grid lines before
\* point instances), extract reading the scene texture, horizontal blur
\* reading the bright texture, vertical blur reading blur texture A and the
\* composite of blur texture B and the scene texture onto the surface, in
\* this order; without a device no render records anything
C21_PassSequence ==
    /\ ~device => frame = <<>>
    /\ frame # <<>> =>
          /\ device /\ context /\ pipeline
          /\ uniform # <<>> /\ uniform[1].cam = frame[1].cam
          /\ Frame_passNames = <<"scene", "extract", "blurH", "blurV", "composite">>
          /\ frame[1].passes[2].reads = <<"sceneTexture">>
          /\ frame[1].passes[3].reads = <<"brightTexture">>
          /\ frame[1].passes[4].reads = <<"blurTextureA">>
          /\ frame[1].passes[5].reads = <<"blurTextureB", "sceneTexture">>
          /\ frame[1].passes[5].target = "surface"
          /\ \A i, j \in 1..Len(Frame_sceneDraws) :
                (Frame_sceneDraws[i] = "grid" /\ Frame_sceneDraws[j] = "points")
                    => i < j

\* a frame whose scene pass draws the grid lines and the point instances
C21_Witness ==
    /\ frame # <<>>
    /\ \E i, j \in 1..Len(Frame_sceneDraws) :
          Frame_sceneDraws[i] = "grid" /\ Frame_sceneDraws[j] = "points"

\* C22: every frame is rendered with a depth texture and offscreen textures
\* of the size the canvas has at that render, and once the device exists it
\* stays: no step takes it away
C22_SizeConsistency ==
    [][ /\ (frame' # <<>> =>
               /\ frame'[1].depthSize = <<canvasW', canvasH'>>
               /\ frame'[1].texSize = <<canvasW', canvasH'>>
               /\ frame'[1].w = canvasW' /\ frame'[1].h = canvasH')
        /\ (device => device') ]_vars

\* a frame rendered by a step that changed the canvas size
C22_Witness ==
    /\ frame # <<>>
    /\ opCount > 0
    /\ <<canvasW, canvasH>> # <<400, 200>>
    /\ frame[1].texSize = <<canvasW, canvasH>>

-----------------------------------------------------------------------------
(* Properties of the GPU objects' lifetimes (SpecLife) *)

\* C23: after any sequence of setPoints and resize operations at most one
\* point vertex buffer, one depth texture and one set of offscreen textures
\* exist undestroyed: the previous ones were destroyed when they were
\* replaced
C23_SingleLiveResources ==
    /\ live.vertexBuffers <= 1
    /\ live.depthTextures <= 1
    /\ live.textureSets <= 1

\* init() has just completed with a device while the latest setPoints call
\* was made before the device existed
Init_completesAfterSetPoints ==
    /\ initPc = "awaitDevice" /\ initPc' = "done" /\ device'
    /\ supplied # <<>>

\* C24: when init completes after setPoints calls made while the device
\* was pending, the vertex buffer holds the set supplied last, pointCount is
\* its length and a frame showing it is rendered in that step
C24_EarlyPointsKept ==
    [][ Init_completesAfterSetPoints =>
           /\ points' = supplied[1].points
           /\ vertexBuffer' = << Len(supplied[1].points) >>
           /\ pointCount' = Len(supplied[1].points)
           /\ frame' # <<>>
           /\ frame'[1].instances = Len(supplied[1].points) ]_vars

\* C24, amended: the same if the set supplied last is not empty; if it is
\* empty no vertex buffer is created, pointCount stays unassigned and the
\* frame rendered in that step draws no point instances
C24_EarlyPointsShown ==
    [][ Init_completesAfterSetPoints =>
           /\ points' = supplied[1].points
           /\ frame' # <<>>
           /\ frame'[1].instances = Len(supplied[1].points)
           /\ IF supplied[1].points # <<>>
              THEN /\ vertexBuffer' = << Len(supplied[1].points) >>
                   /\ pointCount' = Len(supplied[1].points)
              ELSE /\ vertexBuffer' = <<>>
                   /\ pointCount' = -1 ]_vars

\* init has completed after a set of three points was supplied early, and
\* the frame shows them
C24_Witness ==
    /\ device /\ initPc = "done"
    /\ supplied # <<>> /\ supplied[1].early
    /\ supplied[1].points = SamplePoints
    /\ opCount >= 2
    /\ frame # <<>> /\ frame[1].instances = Len(SamplePoints)

-----------------------------------------------------------------------------
(* Properties of the segment lookup (SpecMath) *)

\* the segment and the local weight that t selects on a curve of n points,
\* the last segment taken at weight 1 when the index reaches n - 1
Math_segment(t, n) ==
    LET rawT == RMul(t, R(n - 1, 1))
        idx  == MathFloor(rawT)
    IN  IF idx >= n - 1 THEN [idx |-> n - 2, w |-> One]
        ELSE [idx |-> idx, w |-> RSub(rawT, R(idx, 1))]

\* the cubic of the segment from pA to pB at local weight w
Math_cubic(w, pA, pB, axis) ==
    cubicBezier(w, Coord(pA, axis),
                RAdd(Coord(pA, axis), Handle(pA.cp2, axis)),
                RAdd(Coord(pB, axis), Handle(pB.cp1, axis)),
                Coord(pB, axis))

\* C25: for t in [0,1] and a curve of n >= 2 points, sampleBezierSpline
\* returns the cubic of segment floor(t (n-1)) at local weight
\* t (n-1) - floor(t (n-1)), reads no point index outside 0..n-1, and at
\* t = 1 returns the last anchor's coordinate, which is the value of segment
\* n-2 at local weight 1
C25_SegmentLookupInRange ==
    (math # <<>> /\ math.fn = "sampleBezierSpline" /\ math.out # <<>>
        /\ Len(math.points) >= 2) =>
        LET n   == Len(math.points)
            seg == Math_segment(math.t, n)
        IN  /\ math.reads \subseteq 0..(n - 1)
            /\ seg.idx \in 0..(n - 2)
            /\ math.out[1] = Math_cubic(seg.w, math.points[seg.idx + 1],
                                        math.points[seg.idx + 2], math.axis)
            /\ math.t = One => math.out[1] = Coord(math.points[n], math.axis)

\* a call at t = 1 on a curve of more than two points with handles
C25_Witness ==
    /\ math # <<>> /\ math.fn = "sampleBezierSpline" /\ math.out # <<>>
    /\ math.points = EditorHorizontal
    /\ math.t = One
    /\ math.reads = {Len(EditorHorizontal) - 1}

-----------------------------------------------------------------------------
(* Properties of init() under interleaving (SpecApp) *)

\* C26: whatever is called between the two suspension points of init() and
\* after them, a frame is recorded only when the device, the context, both
\* pipelines, the uniform buffers, the depth texture, the four offscreen
\* textures, the three post-process pipelines and the sampler exist
C26_NoPartialInitRender ==
    frame # <<>> =>
        /\ device /\ context /\ pipeline /\ uniformBuffer
        /\ depthSize # <<>> /\ texSize # <<>>
        /\ {"context", "pipeline", "linePipeline", "uniformBuffer",
            "axesUniformBuffer", "postUniformBuffer", "depthTexture",
            "sceneTexture", "brightTexture", "blurTextureA", "blurTextureB",
            "extract", "blur", "composite", "sampler"} \subseteq created

\* a frame recorded after user operations interleaved with init()
C26_Witness ==
    /\ frame # <<>>
    /\ opCount = MaxOps
    /\ points # <<>>
    /\ created = Init_created

-----------------------------------------------------------------------------
(* Properties of the circles written by toSVG (SpecMvp) *)

\* C28: every circle toSVG writes has a finite centre, a finite radius of at
\* least 0.1 and comes from a point whose clip W is positive, whatever the
\* camera state and the canvas size
C28_CirclesFinite ==
    svg # <<>> =>
        \A k \in 1..Len(svg[1].circles) :
            LET c == svg[1].circles[k]
            IN  /\ isFinite(c.x) /\ isFinite(c.y)
                /\ isFinite(c.r) /\ RLe(R(1, 10), c.r)
                /\ RLt(Zero, c.w)

\* the same for the exports made with finite angles and pan and a zoom
\* other than 0
Svg_finiteCamera ==
    /\ isFinite(svg[1].cam.angleX) /\ isFinite(svg[1].cam.angleY)
    /\ isFinite(svg[1].cam.offsetX) /\ isFinite(svg[1].cam.offsetY)
    /\ isFinite(svg[1].cam.zoom) /\ svg[1].cam.zoom # Zero

Svg_circlesFiniteForFiniteCamera ==
    (svg # <<>> /\ Svg_finiteCamera) => C28_CirclesFinite

-----------------------------------------------------------------------------
(* Properties of the interaction modes (SpecApp) *)

\* C29: after any sequence of pointer and touch events isDragging (rotate)
\* and isPanning (pan) are never both true
C29_ModeExclusive == ~(isDragging /\ isPanning)

-----------------------------------------------------------------------------
(* Properties of the curve editor                                           *)

\* C27: after any sequence of mouse-down, mouse-move, mouse-up, double-click,
\* context-menu and reset events, dragIndex is -1 or an index of a point of
\* the curve, so that a mouse-move during a drag finds the point it updates.
C27_DragIndexValid ==
    /\ editor.dragIndex = -1 \/ editor.dragIndex \in 0..(Len(editor.points) - 1)
    /\ ~editor.threw

\* C30: after any sequence of double-click, context-menu, drag and reset
\* events the curve of an editor has at least two points, hence at least
\* one spline segment.
C30_AtLeastTwoPoints == Len(editor.points) >= 2

\* the context menu on a point of a curve of exactly two points, which an
\* earlier removal left, removed nothing
C30_Witness ==
    /\ Len(editor.points) = 2
    /\ editor.event = "refused"

=============================================================================
